---- MODULE Spec2Model ----
(***************************************************************************)
(* Checklist++ (src/checklistplusplus.py): the task status / kanban        *)
(* transition model, the store and the markdown bridge, as a state machine *)
(* over the process-wide current checklist.                                *)
(*                                                                         *)
(* A task is a Python dict: here a function from field names to values,    *)
(* whose DOMAIN is the set of keys the dict holds ('status' in item is     *)
(* "status" \in DOMAIN item).  Text (task titles, markdown lines) is a     *)
(* sequence of one-character strings, so that slicing and prefix tests are *)
(* computed position by position as the code computes them.                *)
(***************************************************************************)
EXTENDS Integers, Sequences, FiniteSets, TLC

\* ------------------------------------------------------------------ bounds
\* Longest checklist the add operations build.
MaxTasks == 2
\* Most seconds a task accumulates in time_spent.
MaxSpent == 1

\* ------------------------------------------------------- program constants
KANBAN_COLUMNS == <<"Todo", "Progress", "Done">>
\* CONFIG['limits']['taskname']
TasknameLimit == 40
\* CONFIG['repaint']
Repaint == TRUE
\* DEFAULT_CONFIG (the keys the model reads)
DEFAULT_CONFIG ==
    [limits |-> [todo |-> 10, progress |-> 3, done |-> 10,
                 taskname |-> TasknameLimit],
     repaint |-> Repaint]
\* Names of stored checklists (file <data_dir>/<name>.json).
Names == {"default", "work", "old"}

VARIABLES
    pc,                    \* "start" | "loop" | "exited" | "crashed"
    current_checklist,     \* the in-memory list of task dicts
    current_checklist_name,
    last_action,           \* None, or (action, task object)
    KANBAN_VIEW_ENABLED,
    KANBAN_ALIGNMENT_HORIZONTAL,
    CONFIG,                \* the configuration: column and title limits, repaint
    files,                 \* name -> stored JSON document, Absent or Malformed
    exported,              \* lines of the last exported markdown file, or NoFile
    op                     \* history: the operation that produced this state

vars == <<pc, current_checklist, current_checklist_name, last_action,
          KANBAN_VIEW_ENABLED, KANBAN_ALIGNMENT_HORIZONTAL, CONFIG, files,
          exported, op>>

NoFile == "nofile"

\* ------------------------------------------------------------ dict helpers
\* item.get(k, d)
Get(item, k, d) == IF k \in DOMAIN item THEN item[k] ELSE d

\* item[k] = v  (adds the key when the dict does not hold it)
SetField(item, k, v) ==
    [f \in DOMAIN item \cup {k} |-> IF f = k THEN v ELSE item[f]]

\* list with element i replaced
SetAt(list, i, item) == [list EXCEPT ![i] = item]

\* list.pop(i - 1)
RemoveAt(list, i) ==
    [j \in 1..(Len(list) - 1) |-> IF j < i THEN list[j] ELSE list[j + 1]]

\* ------------------------------------------------------------ status model
\* a column computed from completed and progress even when status is stored
_status_for_task_ignoring_status(item) ==
    IF Get(item, "completed", FALSE) THEN "Done"
    ELSE IF Get(item, "progress", 0) > 0 THEN "Progress"
    ELSE "Todo"

_status_for_task(item) ==
    IF "status" \in DOMAIN item THEN item["status"]
    ELSE IF Get(item, "completed", FALSE) THEN "Done"
    ELSE IF Get(item, "progress", 0) > 0 THEN "Progress"
    ELSE "Todo"

\* KANBAN_COLUMNS.index(status), zero-based; -1 stands for the ValueError
ColumnIndex(status) ==
    IF \E i \in 1..Len(KANBAN_COLUMNS) : KANBAN_COLUMNS[i] = status
    THEN (CHOOSE i \in 1..Len(KANBAN_COLUMNS) : KANBAN_COLUMNS[i] = status) - 1
    ELSE -1

\* a promote that sets completed on every move, not only on a move to Done
PromotedMenu_completing_every_move(task) ==
    LET idx == ColumnIndex(_status_for_task(task)) IN
    IF idx < Len(KANBAN_COLUMNS) - 1
    THEN SetField(SetField(task, "status", KANBAN_COLUMNS[idx + 2]), "completed", TRUE)
    ELSE task

\* the body of promote_task applied to one task (menu option 21)
PromotedMenu(task) ==
    LET idx == ColumnIndex(_status_for_task(task)) IN
    IF idx < Len(KANBAN_COLUMNS) - 1
    THEN LET t1 == SetField(task, "status", KANBAN_COLUMNS[idx + 2]) IN
         IF t1["status"] = "Done" THEN SetField(t1, "completed", TRUE) ELSE t1
    ELSE task

\* a promote that stores the column it computed also when the task stays put
PromotedVerb_storing_last_column(task) ==
    LET idx == ColumnIndex(_status_for_task(task)) IN
    IF idx < Len(KANBAN_COLUMNS) - 1
    THEN SetField(task, "status", KANBAN_COLUMNS[idx + 2])
    ELSE SetField(task, "status", KANBAN_COLUMNS[idx + 1])

\* the body of the promote verb applied to one task
PromotedVerb(task) ==
    LET idx == ColumnIndex(_status_for_task(task)) IN
    IF idx < Len(KANBAN_COLUMNS) - 1
    THEN SetField(task, "status", KANBAN_COLUMNS[idx + 2])
    ELSE task

\* a regress that moves the column and never resets completed
Regressed_keeping_completed(task) ==
    LET idx == ColumnIndex(_status_for_task(task)) IN
    IF idx > 0 THEN SetField(task, "status", KANBAN_COLUMNS[idx]) ELSE task

\* the body of regress_task and of the regress verb applied to one task
Regressed(task) ==
    LET status == _status_for_task(task)
        idx == ColumnIndex(status) IN
    IF idx > 0
    THEN LET t1 == SetField(task, "status", KANBAN_COLUMNS[idx]) IN
         IF status = "Done" THEN SetField(t1, "completed", FALSE) ELSE t1
    ELSE task

\* ------------------------------------------------------------ list view
\* Rank of a priority string in Python's string order (code point order):
\* "High" < "Low" < "Medium" < "Urgent".
StrRank(s) ==
    CASE s = "High" -> 1
      [] s = "Low" -> 2
      [] s = "Medium" -> 3
      [] OTHER -> 4

SortKey(item) == StrRank(Get(item, "priority", "Medium"))

\* sorted(current_checklist, key=priority, reverse=True), as the positions in
\* `list` of the sorted objects: a stable sort, larger keys first.
SortedIndices(list) ==
    LET n == Len(list)
        Before(i, j) == \/ SortKey(list[i]) > SortKey(list[j])
                        \/ (SortKey(list[i]) = SortKey(list[j]) /\ i < j)
        Pos(i) == 1 + Cardinality({j \in 1..n : Before(j, i)})
    IN [k \in 1..n |-> CHOOSE i \in 1..n : Pos(i) = k]

\* display_checklist(): what the call does to the process and what it returns.
\* item["completed"] raises KeyError for a dict without that key.
DisplayRaises(list) == \E i \in 1..Len(list) : "completed" \notin DOMAIN list[i]
\* the function returns None for an empty checklist (no return statement runs)
DisplayReturnsNone(list) == list = <<>>

\* the auto-repaint at the end of a verb: raises iff the list view raises
RepaintRaises(list, kanban) ==
    CONFIG.repaint /\ ~kanban /\ DisplayRaises(list)

\* ------------------------------------------------------------ text
\* Text is a sequence of one-character strings; a markdown file is a sequence
\* of lines, each without its line terminator.
\* str.startswith
StartsWith(text, prefix) ==
    Len(text) >= Len(prefix) /\ SubSeq(text, 1, Len(prefix)) = prefix

\* text[k:] for a zero-based k
From(text, k) == SubSeq(text, k + 1, Len(text))

\* str.strip() (the model's only whitespace character is the space)
RECURSIVE LStrip(_)
LStrip(text) ==
    IF text # <<>> /\ Head(text) = " " THEN LStrip(Tail(text)) ELSE text

RECURSIVE RStrip(_)
RStrip(text) ==
    IF text # <<>> /\ text[Len(text)] = " "
    THEN RStrip(SubSeq(text, 1, Len(text) - 1)) ELSE text

Strip(text) == RStrip(LStrip(text))

\* str.find: one-based position of the first occurrence of pat, 0 if none
Find(text, pat) ==
    LET hits == {i \in 1..(Len(text) - Len(pat) + 1) :
                    SubSeq(text, i, i + Len(pat) - 1) = pat}
    IN IF hits = {} THEN 0 ELSE CHOOSE i \in hits : \A j \in hits : i <= j

DigitChars == <<"0", "1", "2", "3", "4", "5", "6", "7", "8", "9">>

\* str(n) for a natural number
RECURSIVE DecimalText(_)
DecimalText(n) ==
    IF n < 10 THEN <<DigitChars[n + 1]>>
    ELSE DecimalText(n \div 10) \o <<DigitChars[(n % 10) + 1]>>

IsDigit(c) == \E d \in 1..10 : DigitChars[d] = c

\* int(text) for a text of decimal digits
RECURSIVE DecimalValue(_)
DecimalValue(text) ==
    IF text = <<>> THEN 0
    ELSE 10 * DecimalValue(SubSeq(text, 1, Len(text) - 1))
         + ((CHOOSE d \in 1..10 : DigitChars[d] = text[Len(text)]) - 1)

AllDigits(text) == \A i \in 1..Len(text) : IsDigit(text[i])

DaysInMonth(y, m) ==
    IF m \in {4, 6, 9, 11} THEN 30
    ELSE IF m = 2
    THEN (IF y % 4 = 0 /\ (y % 100 # 0 \/ y % 400 = 0) THEN 29 ELSE 28)
    ELSE 31

\* datetime.strptime(text, '%Y-%m-%d') returns: four year digits, a month
\* 1..12 and a day of that month in one or two digits (the day also as a
\* space and one digit)
ValidDate(text) ==
    LET d1 == Find(text, <<"-">>)
        rest == From(text, d1)
        d2 == Find(rest, <<"-">>)
        y == SubSeq(text, 1, d1 - 1)
        m == SubSeq(rest, 1, d2 - 1)
        d == From(rest, d2)
        dd == IF Len(d) = 2 /\ d[1] = " " THEN <<d[2]>> ELSE d
    IN /\ d1 > 0 /\ d2 > 0
       /\ Len(y) = 4 /\ AllDigits(y) /\ DecimalValue(y) >= 1
       /\ Len(m) \in {1, 2} /\ AllDigits(m) /\ DecimalValue(m) \in 1..12
       /\ Len(d) \in {1, 2} /\ AllDigits(dd) /\ DecimalValue(dd) >= 1
       /\ (Len(dd) = 1 => Len(d) = 1 \/ d[1] = " ")
       /\ DecimalValue(dd) <= DaysInMonth(DecimalValue(y), DecimalValue(m))

\* the characters of the strings the bridge writes and compares
ColumnText(col) ==
    CASE col = "Todo" -> <<"T", "o", "d", "o">>
      [] col = "Progress" -> <<"P", "r", "o", "g", "r", "e", "s", "s">>
      [] col = "Done" -> <<"D", "o", "n", "e">>
      [] OTHER -> <<"?">>

PriorityText(p) ==
    CASE p = "High" -> <<"H", "i", "g", "h">>
      [] p = "Medium" -> <<"M", "e", "d", "i", "u", "m">>
      [] p = "Low" -> <<"L", "o", "w">>
      [] p = "Urgent" -> <<"U", "r", "g", "e", "n", "t">>
      [] OTHER -> <<"?">>

NameText(name) ==
    CASE name = "default" -> <<"d", "e", "f", "a", "u", "l", "t">>
      [] name = "work" -> <<"w", "o", "r", "k">>
      [] name = "old" -> <<"o", "l", "d">>
      [] OTHER -> <<"?">>

\* the output of datetime.now() formatting: one opaque element
Now == "<now>"
\* the grave accent character of the yaml fence
Backtick == "(grave)"

\* ------------------------------------------------------------ store
\* A stored file is a JSON document: per task, the token json.dump writes for
\* each key.  Absent: no such file; Malformed: a file that is not JSON.
Absent == [json |-> "absent"]
Malformed == [json |-> "malformed"]

\* the strings the program stores in priority and status
Atoms == {"High", "Medium", "Low", "Urgent", "Todo", "Progress", "Done"}
AtomText(s) == IF s \in {"Todo", "Progress", "Done"} THEN ColumnText(s)
               ELSE PriorityText(s)
TextAtom(text) == CHOOSE s \in Atoms : AtomText(s) = text

\* a JSON string body written without escapes
Escaped_nothing(text) == text

\* the body of a JSON string: quote and backslash are escaped
RECURSIVE Escaped(_)
Escaped(text) ==
    IF text = <<>> THEN <<>>
    ELSE (IF Head(text) \in {"\"", "\\"} THEN <<"\\", Head(text)>>
          ELSE <<Head(text)>>) \o Escaped(Tail(text))

RECURSIVE Unescaped(_)
Unescaped(text) ==
    IF text = <<>> THEN <<>>
    ELSE IF Head(text) = "\\" /\ Len(text) >= 2
    THEN <<text[2]>> \o Unescaped(SubSeq(text, 3, Len(text)))
    ELSE <<Head(text)>> \o Unescaped(Tail(text))

\* json.dump of the value held under key k
JsonEncode(k, v) ==
    IF k = "completed"
    THEN [json |-> "literal",
          text |-> IF v THEN <<"t", "r", "u", "e">> ELSE <<"f", "a", "l", "s", "e">>]
    ELSE IF k \in {"start_time", "time_spent", "progress"}
    THEN [json |-> "number", text |-> DecimalText(v)]
    ELSE IF k \in {"priority", "status"}
    THEN [json |-> "string", text |-> Escaped(AtomText(v))]
    ELSE [json |-> "string", text |-> Escaped(v)]

\* json.load of one token: the value follows from the token's type
JsonDecode(k, token) ==
    IF token.json = "literal" THEN token.text = <<"t", "r", "u", "e">>
    ELSE IF token.json = "number" THEN DecimalValue(token.text)
    ELSE IF k \in {"priority", "status"} THEN TextAtom(Unescaped(token.text))
    ELSE Unescaped(token.text)

JsonDump(list) ==
    [json |-> "array",
     items |-> [i \in 1..Len(list) |->
                   [k \in DOMAIN list[i] |-> JsonEncode(k, list[i][k])]]]

JsonLoad(doc) ==
    [i \in 1..Len(doc.items) |->
        [k \in DOMAIN doc.items[i] |-> JsonDecode(k, doc.items[i][k])]]

\* a save that writes a file once and never overwrites it
Saved_only_new_files(fs, name, list) ==
    IF fs[name] = Absent THEN [fs EXCEPT ![name] = JsonDump(list)] ELSE fs

\* save_checklist(name) with the in-memory list `list`
Saved(fs, name, list) == [fs EXCEPT ![name] = JsonDump(list)]

\* ------------------------------------------------------------ last_action
None == [action |-> "none"]
\* The task object of last_action is identified by its position `at` in
\* current_checklist; at = 0 means the object is no longer in the list and
\* `task` holds its value.
Attached(action, at) == [action |-> action, at |-> at]
Detached(action, task) == [action |-> action, at |-> 0, task |-> task]

LastTask(la, list) == IF la.at > 0 THEN list[la.at] ELSE la.task

\* last_action after list.pop(i - 1)
AfterPop(la, list, i) ==
    IF la.action = "none" \/ la.at = 0 THEN la
    ELSE IF la.at = i THEN Detached(la.action, list[i])
    ELSE IF la.at > i THEN Attached(la.action, la.at - 1)
    ELSE la

\* last_action once the in-memory list object is replaced by a loaded one
AfterReplace(la, list) ==
    IF la.action = "none" \/ la.at = 0 THEN la
    ELSE Detached(la.action, list[la.at])

\* ------------------------------------------------------------ inputs
\* What the user types at a task-number prompt: a non-numeric text, or a number.
NonNumeric == [num |-> FALSE, val |-> 0]
Number(v) == [num |-> TRUE, val |-> v]
TaskNumInputs == {NonNumeric} \cup {Number(v) : v \in 0..(MaxTasks + 1)}

Titles == {<<"a">>}
\* titles with a character json.dump escapes
StoreTitles == {<<"a">>, <<"\\", "a">>}

\* ------------------------------------------------------------ history
NoOp == [kind |-> "none", n |-> 0]
\* kind/via: the operation; n: position in current_checklist of the task the
\* operation acted on (0: none); col, completed: that task's column and
\* completed flag before the operation.  For a regress that immediately
\* follows a promote of the same task, pcol and pcompleted are the column and
\* completed flag the task had before that promote (pcol = "-" otherwise).
OpOn(kind, via, n, task) ==
    LET round == kind = "regress" /\ op.kind = "promote" /\ op.n = n IN
    [kind |-> kind, via |-> via, n |-> n,
     col |-> _status_for_task(task),
     completed |-> Get(task, "completed", FALSE),
     pcol |-> IF round THEN op.col ELSE "-",
     pcompleted |-> IF round THEN op.completed ELSE FALSE]
OpNone(kind, via) ==
    [kind |-> kind, via |-> via, n |-> 0, col |-> "-", completed |-> FALSE,
     pcol |-> "-", pcompleted |-> FALSE]

\* ------------------------------------------------------------ Init
Init ==
    /\ pc = "start"
    /\ current_checklist = <<>>
    /\ current_checklist_name = "default"
    /\ last_action = None
    /\ KANBAN_VIEW_ENABLED = FALSE
    /\ KANBAN_ALIGNMENT_HORIZONTAL = TRUE
    /\ CONFIG = DEFAULT_CONFIG
    /\ files = [n \in Names |-> IF n = "old" THEN Malformed ELSE Absent]
    /\ exported = NoFile
    /\ op = NoOp

\* a load that starts an empty checklist without writing its file
load_checklist_without_creating(fs, name) ==
    IF fs[name] = Malformed
    THEN /\ files' = fs
         /\ UNCHANGED <<current_checklist, current_checklist_name>>
    ELSE /\ current_checklist' = IF fs[name] # Absent THEN JsonLoad(fs[name])
                                  ELSE <<>>
         /\ current_checklist_name' = name
         /\ files' = fs

\* load_checklist(name) on the store fs: a file that is not JSON raises out of
\* json.load before anything is assigned
LoadRaises(fs, name) == fs[name] = Malformed

load_checklist(fs, name) ==
    IF LoadRaises(fs, name)
    THEN /\ files' = fs
         /\ UNCHANGED <<current_checklist, current_checklist_name>>
    ELSE IF fs[name] # Absent
    THEN /\ current_checklist' = JsonLoad(fs[name])
         /\ current_checklist_name' = name
         /\ files' = fs
    ELSE /\ current_checklist' = <<>>
         /\ current_checklist_name' = name
         /\ files' = Saved(fs, name, <<>>)

\* main() without command-line arguments: load the default checklist, show it,
\* enter the input loop.
StartInteractive ==
    /\ pc = "start"
    /\ load_checklist(files, current_checklist_name)
    /\ pc' = IF \/ LoadRaises(files, current_checklist_name)
                \/ (~KANBAN_VIEW_ENABLED /\ DisplayRaises(current_checklist'))
             THEN "crashed" ELSE "loop"
    /\ op' = OpNone("start", "menu")
    /\ UNCHANGED <<last_action, KANBAN_VIEW_ENABLED, exported,
                   KANBAN_ALIGNMENT_HORIZONTAL, CONFIG>>

\* ------------------------------------------------------------ steps
\* One pass of the input loop that changes the checklist state as given and
\* leaves the view flag and the exported file alone.
Step(pc2, list2, files2, la2, op2) ==
    /\ pc' = pc2
    /\ current_checklist' = list2
    /\ files' = files2
    /\ last_action' = la2
    /\ op' = op2
    /\ UNCHANGED <<current_checklist_name, KANBAN_VIEW_ENABLED, exported,
                   KANBAN_ALIGNMENT_HORIZONTAL, CONFIG>>

\* the operation printed a message and changed nothing
Rejected(kind, via) ==
    Step("loop", current_checklist, files, last_action, OpNone(kind, via))

\* an exception no handler catches ends the process
Crashed(kind, via) ==
    Step("crashed", current_checklist, files, last_action, OpNone(kind, via))

\* The menu operations' task-number prompt, given the list `shown` the bounds
\* check measures (None when the list view printed an empty checklist):
\* "raise" a KeyError of the list view, "value" a ValueError of int(),
\* "range" an index out of range, "type" the TypeError of len(None), "ok".
MenuIndex(inp, listView) ==
    IF listView /\ DisplayRaises(current_checklist) THEN "raise"
    ELSE IF ~inp.num THEN "value"
    ELSE IF ~(0 <= inp.val - 1) THEN "range"
    ELSE IF listView /\ DisplayReturnsNone(current_checklist) THEN "type"
    ELSE IF inp.val - 1 < Len(current_checklist) THEN "ok"
    ELSE "range"

\* The verbs' task number: int(args[0]) - 1 checked against the checklist.
VerbIndex(inp) ==
    IF ~inp.num THEN "value"
    ELSE IF 0 <= inp.val - 1 /\ inp.val - 1 < Len(current_checklist) THEN "ok"
    ELSE "range"

\* after a verb changed the list to list2 and saved it: the auto-repaint
VerbDone(list2, la2, op2) ==
    Step(IF RepaintRaises(list2, KANBAN_VIEW_ENABLED) THEN "crashed" ELSE "loop",
         list2, Saved(files, current_checklist_name, list2), la2, op2)

\* ------------------------------------------------------------ add
\* str.capitalize() on the priority answers the model types
Capitalize(s) ==
    CASE s \in {"high", "HIGH", "High"} -> "High"
      [] s \in {"medium", "Medium"} -> "Medium"
      [] s \in {"low", "Low"} -> "Low"
      [] s \in {"urgent", "Urgent"} -> "Urgent"
      [] OTHER -> s

\* an add that puts the new task in front of the others
add_task_in_front(task, answer) ==
    /\ pc = "loop"
    /\ Len(current_checklist) < MaxTasks
    /\ LET priority == IF Capitalize(answer) \in {"High", "Medium", "Low"}
                       THEN Capitalize(answer) ELSE "Medium"
           new_task == [task |-> task, completed |-> FALSE, start_time |-> 0,
                        time_spent |-> 0, priority |-> priority, progress |-> 0]
           list2 == <<new_task>> \o current_checklist
       IN Step("loop", list2, Saved(files, current_checklist_name, list2),
               Attached("add", 1), OpNone("add", "menu"))

\* add_task(): menu option 2, on a checklist of any length
AddTask(task, answer) ==
    /\ pc = "loop"
    /\ LET priority == IF Capitalize(answer) \in {"High", "Medium", "Low"}
                       THEN Capitalize(answer) ELSE "Medium"
           new_task == [task |-> task, completed |-> FALSE, start_time |-> 0,
                        time_spent |-> 0, priority |-> priority, progress |-> 0]
           list2 == Append(current_checklist, new_task)
       IN Step("loop", list2, Saved(files, current_checklist_name, list2),
               Attached("add", Len(list2)), OpNone("add", "menu"))

\* add_task(): menu option 2, while the checklist is shorter than MaxTasks
add_task(task, answer) ==
    /\ Len(current_checklist) < MaxTasks
    /\ AddTask(task, answer)

\* add_task_with_args(args): the add verb, task = " ".join(args)
add_task_with_args(text) ==
    /\ pc = "loop"
    /\ text # <<>> => Len(current_checklist) < MaxTasks
    /\ IF text = <<>> THEN Rejected("add", "verb")
       ELSE LET task == IF Len(text) > TasknameLimit
                        THEN SubSeq(text, 1, TasknameLimit) ELSE text
                new_task == [task |-> task, completed |-> FALSE, start_time |-> 0,
                             time_spent |-> 0, priority |-> "Medium",
                             progress |-> 0, status |-> "Todo"]
                list2 == Append(current_checklist, new_task)
            IN VerbDone(list2, Attached("add", Len(list2)), OpNone("add", "verb"))

\* ------------------------------------------------------------ promote / regress
\* promote_task(): menu option 21; the task is current_checklist[task_num]
promote_task(inp) ==
    /\ pc = "loop"
    /\ LET r == MenuIndex(inp, ~KANBAN_VIEW_ENABLED)
           i == inp.val
       IN CASE r \in {"raise", "type"} -> Crashed("promote", "menu")
            [] r \in {"value", "range"} -> Rejected("promote", "menu")
            [] r = "ok" ->
                 IF ColumnIndex(_status_for_task(current_checklist[i])) = -1
                 THEN Rejected("promote", "menu")
                 ELSE LET list2 == SetAt(current_checklist, i,
                                         PromotedMenu(current_checklist[i]))
                      IN Step("loop", list2,
                              Saved(files, current_checklist_name, list2),
                              last_action,
                              OpOn("promote", "menu", i, current_checklist[i]))

\* regress_task(): menu option 22; the task is current_checklist[task_num]
regress_task(inp) ==
    /\ pc = "loop"
    /\ LET r == MenuIndex(inp, ~KANBAN_VIEW_ENABLED)
           i == inp.val
       IN CASE r \in {"raise", "type"} -> Crashed("regress", "menu")
            [] r \in {"value", "range"} -> Rejected("regress", "menu")
            [] r = "ok" ->
                 IF ColumnIndex(_status_for_task(current_checklist[i])) = -1
                 THEN Rejected("regress", "menu")
                 ELSE LET list2 == SetAt(current_checklist, i,
                                         Regressed(current_checklist[i]))
                      IN Step("loop", list2,
                              Saved(files, current_checklist_name, list2),
                              last_action,
                              OpOn("regress", "menu", i, current_checklist[i]))

\* process_simple_commands: promote|p <id>
PromoteVerb(inp) ==
    /\ pc = "loop"
    /\ LET i == inp.val IN
       IF VerbIndex(inp) # "ok" THEN Rejected("promote", "verb")
       ELSE IF ColumnIndex(_status_for_task(current_checklist[i])) = -1
       THEN Rejected("promote", "verb")
       ELSE VerbDone(SetAt(current_checklist, i, PromotedVerb(current_checklist[i])),
                     last_action,
                     OpOn("promote", "verb", i, current_checklist[i]))

\* process_simple_commands: regress|r <id>
RegressVerb(inp) ==
    /\ pc = "loop"
    /\ LET i == inp.val IN
       IF VerbIndex(inp) # "ok" THEN Rejected("regress", "verb")
       ELSE IF ColumnIndex(_status_for_task(current_checklist[i])) = -1
       THEN Rejected("regress", "verb")
       ELSE VerbDone(SetAt(current_checklist, i, Regressed(current_checklist[i])),
                     last_action,
                     OpOn("regress", "verb", i, current_checklist[i]))

\* ------------------------------------------------------------ mark / delete
\* mark_task(): menu option 3; the task is sorted_checklist[task_num]
mark_task(inp) ==
    /\ pc = "loop"
    /\ LET r == MenuIndex(inp, TRUE) IN
       CASE r \in {"raise", "type"} -> Crashed("mark", "menu")
         [] r \in {"value", "range"} -> Rejected("mark", "menu")
         [] r = "ok" ->
              LET i == SortedIndices(current_checklist)[inp.val]
                  list2 == SetAt(current_checklist, i,
                                 SetField(current_checklist[i], "completed", TRUE))
              IN Step("loop", list2, Saved(files, current_checklist_name, list2),
                      Attached("complete", i),
                      OpOn("mark", "menu", i, current_checklist[i]))

\* the mark verb's assignments to the task
MarkedVerb(task) == SetField(SetField(task, "completed", TRUE), "status", "Done")

\* process_simple_commands: mark|m <id>
MarkVerb(inp) ==
    /\ pc = "loop"
    /\ IF VerbIndex(inp) # "ok" THEN Rejected("mark", "verb")
       ELSE LET i == inp.val IN
            VerbDone(SetAt(current_checklist, i, MarkedVerb(current_checklist[i])),
                     last_action, OpOn("mark", "verb", i, current_checklist[i]))

\* process_simple_commands: delete|d <id>
DeleteVerb(inp) ==
    /\ pc = "loop"
    /\ IF VerbIndex(inp) # "ok" THEN Rejected("delete", "verb")
       ELSE LET i == inp.val IN
            VerbDone(RemoveAt(current_checklist, i),
                     AfterPop(last_action, current_checklist, i),
                     OpOn("delete", "verb", i, current_checklist[i]))

\* toggle_kanban_view(): menu option 19
toggle_kanban_view ==
    /\ pc = "loop"
    /\ KANBAN_VIEW_ENABLED' = ~KANBAN_VIEW_ENABLED
    /\ op' = OpNone("toggle_view", "menu")
    /\ UNCHANGED <<pc, current_checklist, current_checklist_name, last_action,
                   files, exported, KANBAN_ALIGNMENT_HORIZONTAL, CONFIG>>

\* toggle_kanban_alignment(): menu option 23
toggle_kanban_alignment ==
    /\ pc = "loop"
    /\ KANBAN_ALIGNMENT_HORIZONTAL' = ~KANBAN_ALIGNMENT_HORIZONTAL
    /\ op' = OpNone("toggle_alignment", "menu")
    /\ UNCHANGED <<pc, current_checklist, current_checklist_name, last_action,
                   files, exported, KANBAN_VIEW_ENABLED, CONFIG>>

\* configure(): menu option 24, with every prompt but the Done limit and the
\* repaint prompt answered by an empty line (the value is kept).  int() of a
\* Done limit that is not a number raises after the two earlier limits were
\* assigned (to the values they had); the repaint flag is True only for the
\* answers y, yes and true.
configure(done, repaint) ==
    /\ pc = "loop"
    /\ IF ~done.digit
       THEN Crashed("configure", "menu")
       ELSE /\ CONFIG' = [limits |-> [CONFIG.limits EXCEPT !.done = done.val],
                          repaint |-> repaint \in {"y", "yes", "true"}]
            /\ op' = OpNone("configure", "menu")
            /\ UNCHANGED <<pc, current_checklist, current_checklist_name,
                           last_action, files, exported, KANBAN_VIEW_ENABLED,
                           KANBAN_ALIGNMENT_HORIZONTAL>>

\* ------------------------------------------------------------ views
\* History record of a rendering: the rows it printed, and the checklist and
\* the store at the moment it was called.
OpShown(kind, shown) ==
    [kind |-> kind, via |-> "menu", n |-> 0, col |-> "-", completed |-> FALSE,
     pcol |-> "-", pcompleted |-> FALSE, shown |-> shown,
     before |-> current_checklist, store |-> files]

\* the rows of the list view: sorted_checklist, numbered from 1, each with
\* the priority the detailed view prints
ListRows(list) ==
    [k \in 1..Len(list) |->
        LET item == list[SortedIndices(list)[k]] IN
        [index |-> k, at |-> SortedIndices(list)[k],
         priority |-> Get(item, "priority", "Medium")]]

\* display_checklist(): menu option 1
display_checklist ==
    /\ pc = "loop"
    /\ Step(IF DisplayRaises(current_checklist) THEN "crashed" ELSE "loop",
            current_checklist, files, last_action,
            OpShown("display_checklist", ListRows(current_checklist)))

\* grouped[col] of display_kanban: the one-based numbers of the tasks of the
\* column, in checklist order
Grouped(list, col) ==
    SelectSeq([i \in 1..Len(list) |-> i],
              LAMBDA i : _status_for_task(list[i]) = col)

\* col.lower(), the key of the column's limit
LimitKey(col) ==
    CASE col = "Todo" -> "todo"
      [] col = "Progress" -> "progress"
      [] col = "Done" -> "done"

\* a column that shows every task it holds, whatever the limit
VerticalColumn_without_limit(list, col, limits) ==
    [col |-> col, rows |-> Grouped(list, col), more |-> 0]

\* One column of the vertical layout: the task numbers printed under the
\* heading and the N of the heading's (+N more); only Done is cut to its limit
\* (col_items[:limit], for a limit that is not negative).
VerticalColumn(list, col, limits) ==
    LET col_items == Grouped(list, col)
        limit == limits[LimitKey(col)]
        cut == Len(col_items) > limit /\ col = "Done"
    IN [col |-> col,
        rows |-> IF cut THEN SubSeq(col_items, 1, limit) ELSE col_items,
        more |-> IF cut /\ Len(col_items) - limit > 0
                 THEN Len(col_items) - limit ELSE 0]

\* The rows of the horizontal layout: row r holds, per column, the number of
\* the column's r-th task, 0 for a blank cell.
HorizontalRows(list) ==
    LET Count(c) == Len(Grouped(list, KANBAN_COLUMNS[c]))
        max_tasks == CHOOSE m \in 0..Len(list) :
                         /\ \A c \in 1..Len(KANBAN_COLUMNS) : Count(c) <= m
                         /\ \/ m = 0
                            \/ \E c \in 1..Len(KANBAN_COLUMNS) : Count(c) = m
    IN [r \in 1..max_tasks |->
          [c \in 1..Len(KANBAN_COLUMNS) |->
              IF r <= Count(c) THEN Grouped(list, KANBAN_COLUMNS[c])[r] ELSE 0]]

\* what display_kanban prints, in the layout the alignment flag selects
KanbanShown(list, horizontal, limits) ==
    IF horizontal
    THEN [layout |-> "horizontal", rows |-> HorizontalRows(list)]
    ELSE [layout |-> "vertical",
          columns |-> [c \in 1..Len(KANBAN_COLUMNS) |->
                          VerticalColumn(list, KANBAN_COLUMNS[c], limits)]]

\* a rendering that keeps what it printed: the tasks cut from the Done column
\* are removed from the checklist
display_kanban_dropping_overflow ==
    /\ pc = "loop"
    /\ LET shown == KanbanShown(current_checklist, KANBAN_ALIGNMENT_HORIZONTAL,
                                CONFIG.limits)
           done == IF KANBAN_ALIGNMENT_HORIZONTAL THEN <<>>
                   ELSE shown.columns[3].rows
           cut == ~KANBAN_ALIGNMENT_HORIZONTAL /\ shown.columns[3].more > 0
           kept == SelectSeq([i \in 1..Len(current_checklist) |-> i],
                             LAMBDA i : \/ _status_for_task(current_checklist[i]) # "Done"
                                        \/ \E k \in 1..Len(done) : done[k] = i)
       IN Step("loop",
               IF cut THEN [k \in 1..Len(kept) |-> current_checklist[kept[k]]]
               ELSE current_checklist,
               files, last_action, OpShown("display_kanban", shown))

\* display_kanban(): menu option 20 / k
display_kanban ==
    /\ pc = "loop"
    /\ Step("loop", current_checklist, files, last_action,
            OpShown("display_kanban",
                    KanbanShown(current_checklist, KANBAN_ALIGNMENT_HORIZONTAL,
                                CONFIG.limits)))

\* ------------------------------------------------------------ undo / edit
\* position of the first element of list equal to task (0: none): list.remove
FirstEqual(list, task) ==
    IF \E i \in 1..Len(list) : list[i] = task
    THEN CHOOSE i \in 1..Len(list) :
             list[i] = task /\ \A j \in 1..(i - 1) : list[j] # task
    ELSE 0

\* undo_action(): menu option 9
undo_action ==
    /\ pc = "loop"
    /\ CASE last_action.action = "none" -> Rejected("undo", "menu")
         [] last_action.action = "add" ->
              LET i == FirstEqual(current_checklist,
                                  LastTask(last_action, current_checklist))
                  list2 == RemoveAt(current_checklist, i)
              IN IF i = 0 THEN Crashed("undo", "menu")
                 ELSE Step("loop", list2,
                           Saved(files, current_checklist_name, list2),
                           None, OpNone("undo", "menu"))
         [] last_action.action = "complete" ->
              LET i == last_action.at
                  list2 == IF i > 0
                           THEN SetAt(current_checklist, i,
                                      SetField(current_checklist[i], "completed", FALSE))
                           ELSE current_checklist
              IN Step("loop", list2,
                      Saved(files, current_checklist_name, list2), None,
                      IF i > 0 THEN OpOn("undo", "menu", i, current_checklist[i])
                      ELSE OpNone("undo", "menu"))

\* What the user types at the progress prompt: digits (str.isdigit) or not.
NoDigits == [digit |-> FALSE, val |-> 0]
Digits(v) == [digit |-> TRUE, val |-> v]

\* edit_task(): menu option 8; the task is sorted_checklist[task_num].  The
\* prompts read task['priority'] and task['progress']: a dict without the key
\* raises KeyError after the earlier answers were stored in memory.
edit_task(inp, name, answer, progress) ==
    /\ pc = "loop"
    /\ LET r == MenuIndex(inp, TRUE) IN
       CASE r \in {"raise", "type"} -> Crashed("edit", "menu")
         [] r \in {"value", "range"} -> Rejected("edit", "menu")
         [] r = "ok" ->
              LET i == SortedIndices(current_checklist)[inp.val]
                  task == current_checklist[i]
                  t1 == SetField(task, "task", IF name # <<>> THEN name ELSE task["task"])
                  t2 == SetField(t1, "priority",
                                 IF Capitalize(answer) # "" THEN Capitalize(answer)
                                 ELSE task["priority"])
                  t3 == IF progress.digit THEN SetField(t2, "progress", progress.val)
                        ELSE t2
                  list3 == SetAt(current_checklist, i, t3)
              IN IF "priority" \notin DOMAIN task
                 THEN Step("crashed", SetAt(current_checklist, i, t1), files,
                           last_action, OpNone("edit", "menu"))
                 ELSE IF "progress" \notin DOMAIN task
                 THEN Step("crashed", SetAt(current_checklist, i, t2), files,
                           last_action, OpNone("edit", "menu"))
                 ELSE Step("loop", list3,
                           Saved(files, current_checklist_name, list3),
                           last_action, OpOn("edit", "menu", i, task))

\* ------------------------------------------------------------ checklists
\* What the user types at a checklist-name prompt.
NoName == ""
NameInputs == Names \cup {NoName}

\* switch_checklist(): menu option 12: save the current checklist, load `name`
switch_checklist(name) ==
    /\ pc = "loop"
    /\ IF name = NoName THEN Rejected("switch", "menu")
       ELSE LET saved == Saved(files, current_checklist_name, current_checklist)
                back == op.kind = "switch" /\ "from" \in DOMAIN op
                        /\ op.from = name
            IN /\ load_checklist(saved, name)
               /\ pc' = IF LoadRaises(saved, name) THEN "crashed" ELSE "loop"
               /\ last_action' = IF LoadRaises(saved, name) THEN last_action
                                  ELSE AfterReplace(last_action, current_checklist)
               /\ op' = [kind |-> "switch", via |-> "menu", n |-> 0,
                         name |-> name, from |-> current_checklist_name,
                         before |-> current_checklist, store |-> saved,
                         back |-> back,
                         original |-> IF back THEN op.before ELSE <<>>]
               /\ UNCHANGED <<KANBAN_VIEW_ENABLED, exported,
                              KANBAN_ALIGNMENT_HORIZONTAL, CONFIG>>

\* history of an operation on the stored file of `name`
OpFile(kind, name) ==
    [kind |-> kind, via |-> "menu", n |-> 0, name |-> name]

\* delete_checklist(): menu option 13
delete_checklist(name, confirm) ==
    /\ pc = "loop"
    /\ IF name = NoName \/ files[name] = Absent \/ confirm # "yes"
       THEN Rejected("delete_checklist", "menu")
       ELSE Step("loop", current_checklist, [files EXCEPT ![name] = Absent],
                 last_action, OpFile("delete_checklist", name))

\* delete_all_checklists(): menu option 15
delete_all_checklists(confirm) ==
    /\ pc = "loop"
    /\ IF (\A n \in Names : files[n] = Absent) \/ confirm # "yes"
       THEN Rejected("delete_all_checklists", "menu")
       ELSE Step("loop", current_checklist, [n \in Names |-> Absent],
                 last_action, OpFile("delete_all_checklists", NoName))

\* menu option 30 and q: save the current checklist and leave the loop
quit ==
    /\ pc = "loop"
    /\ Step("exited", current_checklist,
            Saved(files, current_checklist_name, current_checklist),
            last_action, OpNone("quit", "menu"))

\* ------------------------------------------------------------ timer / schedule
\* Readings of time.time(), in whole seconds.
StartTimes == {5}
StopTimes == {6}

\* start_task(): menu option 4.  The completed test reads
\* current_checklist[task_num], the task started is sorted_checklist[task_num].
start_task(inp, now) ==
    /\ pc = "loop"
    /\ LET r == MenuIndex(inp, TRUE) IN
       CASE r \in {"raise", "type"} -> Crashed("start", "menu")
         [] r \in {"value", "range"} -> Rejected("start", "menu")
         [] r = "ok" ->
              IF current_checklist[inp.val]["completed"]
              THEN Rejected("start", "menu")
              ELSE LET i == SortedIndices(current_checklist)[inp.val]
                       list2 == SetAt(current_checklist, i,
                                      SetField(current_checklist[i], "start_time", now))
                   IN Step("loop", list2,
                           Saved(files, current_checklist_name, list2),
                           last_action,
                           OpOn("start", "menu", i, current_checklist[i]))

\* stop_task(): menu option 5; the task is sorted_checklist[task_num].
\* task["start_time"] and task["time_spent"] raise KeyError when missing.
stop_task(inp, now) ==
    /\ pc = "loop"
    /\ LET r == MenuIndex(inp, TRUE) IN
       CASE r \in {"raise", "type"} -> Crashed("stop", "menu")
         [] r \in {"value", "range"} -> Rejected("stop", "menu")
         [] r = "ok" ->
              LET i == SortedIndices(current_checklist)[inp.val]
                  task == current_checklist[i]
              IN IF "start_time" \notin DOMAIN task THEN Crashed("stop", "menu")
                 ELSE IF ~(task["start_time"] > 0) THEN Rejected("stop", "menu")
                 ELSE IF "time_spent" \notin DOMAIN task THEN Crashed("stop", "menu")
                 ELSE LET elapsed == now - task["start_time"]
                          t1 == SetField(task, "time_spent",
                                         task["time_spent"] + elapsed)
                          list2 == SetAt(current_checklist, i,
                                         SetField(t1, "start_time", 0))
                      IN /\ task["time_spent"] + elapsed <= MaxSpent
                         /\ Step("loop", list2,
                                 Saved(files, current_checklist_name, list2),
                                 last_action, OpOn("stop", "menu", i, task))

\* (datetime.now() + timedelta(days=n)).strftime('%Y-%m-%d'): opaque
DateAfter(n) == <<"(today)", "+">> \o DecimalText(n)

\* What the user types at the due date prompt.
DueInputs == {<<"1">>, <<"2", "0", "2", "5", "-", "0", "1", "-", "0", "1">>, <<"s", "o", "o", "n">>}

\* schedule_task(): menu option 26; the task is sorted_checklist[task_num];
\* the reminder question is answered n
schedule_task(inp, days) ==
    /\ pc = "loop"
    /\ LET r == MenuIndex(inp, TRUE) IN
       CASE r \in {"raise", "type"} -> Crashed("schedule", "menu")
         [] r \in {"value", "range"} -> Rejected("schedule", "menu")
         [] r = "ok" ->
              LET i == SortedIndices(current_checklist)[inp.val]
                  due_date == IF days # <<>> /\ AllDigits(days)
                              THEN DateAfter(DecimalValue(days))
                              ELSE IF ValidDate(days) THEN days
                              ELSE DateAfter(1)
                  list2 == SetAt(current_checklist, i,
                                 SetField(current_checklist[i], "due_date", due_date))
              IN Step("loop", list2,
                      Saved(files, current_checklist_name, list2),
                      last_action,
                      OpOn("schedule", "menu", i, current_checklist[i]))

\* ------------------------------------------------------------ load external
\* Task dicts a JSON file written outside the program may hold: any of the
\* keys completed, progress and status may be missing.
ExternalTasks ==
    LET full == [task : Titles, priority : {"Medium"}, completed : BOOLEAN,
                 progress : {0, 50}, status : {"Todo", "Done"}]
        keep == {{"task", "priority"} \cup opt :
                    opt \in SUBSET {"completed", "progress", "status"}}
    IN {[k \in ks |-> t[k]] : t \in full, ks \in keep}

ExternalChecklists == {<<t>> : t \in ExternalTasks}

\* one such file: a half-done task with no stored status
ExternalSample ==
    <<[task |-> <<"a">>, priority |-> "Medium", completed |-> FALSE,
       progress |-> 50]>>

\* load_external_checklist(): menu option 18.  valid: the path exists, ends in
\* .json and holds a JSON list of objects; the checklist takes the file's
\* base name.
load_external_checklist(valid, name, loaded) ==
    /\ pc = "loop"
    /\ IF ~valid THEN Rejected("load_external", "menu")
       ELSE /\ pc' = "loop"
            /\ current_checklist' = loaded
            /\ current_checklist_name' = name
            /\ files' = Saved(files, name, loaded)
            /\ last_action' = AfterReplace(last_action, current_checklist)
            /\ op' = OpNone("load_external", "menu")
            /\ UNCHANGED <<KANBAN_VIEW_ENABLED, exported,
                   KANBAN_ALIGNMENT_HORIZONTAL, CONFIG>>

\* ------------------------------------------------------------ markdown export
\* f"{t:.2f}" of a whole number of seconds
TimeText(t) == DecimalText(t) \o <<".", "0", "0">>

\* a task line whose box is never ticked
ExportLine_never_ticked(task) ==
    <<"-", " ", "[", " ", "]", " ">> \o task["task"] \o <<" ", "(", ")">>

\* the line export_to_markdown writes for one task
ExportLine(task) ==
    (IF Get(task, "completed", FALSE) THEN <<"-", " ", "[", "x", "]", " ">> ELSE <<"-", " ", "[", " ", "]", " ">>)
    \o task["task"]
    \o <<" ", "(", "*", "*", "P", "r", "i", "o", "r", "i", "t", "y", ":", " ">> \o PriorityText(Get(task, "priority", "Medium"))
    \o <<"*", "*", ",", " ", "P", "r", "o", "g", "r", "e", "s", "s", ":", " ">> \o DecimalText(Get(task, "progress", 0))
    \o <<"%", ",", " ", "T", "i", "m", "e", ":", " ">> \o TimeText(Get(task, "time_spent", 0)) \o <<"s", ")">>

\* tasks_by_status[col], in checklist order
TasksOfColumn(list, col) ==
    SelectSeq(list, LAMBDA t : _status_for_task(t) = col)

\* the section written for one column: nothing when the column is empty
ExportSection(list, col) ==
    LET tasks == TasksOfColumn(list, col) IN
    IF tasks = <<>> THEN <<>>
    ELSE <<<<"#", "#", " ">> \o ColumnText(col), <<>>>>
         \o [i \in 1..Len(tasks) |-> ExportLine(tasks[i])]
         \o << <<>> >>

ExportHeader(name) ==
    <<<<"#", " ", "C", "h", "e", "c", "k", "l", "i", "s", "t", ":", " ">> \o NameText(name), <<>>,
      <<"*", "G", "e", "n", "e", "r", "a", "t", "e", "d", " ", "o", "n", " ">> \o <<Now>> \o <<"*">>, <<>>>>

ExportMetadata(list, name) ==
    <<<<"#", "#", " ", "M", "e", "t", "a", "d", "a", "t", "a">>, <<>>, <<Backtick, Backtick, Backtick, "y", "a", "m", "l">>,
      <<"c", "h", "e", "c", "k", "l", "i", "s", "t", "_", "n", "a", "m", "e", ":", " ">> \o NameText(name),
      <<"d", "a", "t", "e", "_", "e", "x", "p", "o", "r", "t", "e", "d", ":", " ">> \o <<Now>>,
      <<"t", "o", "t", "a", "l", "_", "t", "a", "s", "k", "s", ":", " ">> \o DecimalText(Len(list)),
      <<"c", "o", "m", "p", "l", "e", "t", "e", "d", "_", "t", "a", "s", "k", "s", ":", " ">> \o DecimalText(Len(SelectSeq(list,
                                   LAMBDA t : Get(t, "completed", FALSE)))),
      <<Backtick, Backtick, Backtick>>>>

\* the file export_to_markdown writes for the checklist `list`
ExportedFile(list, name) ==
    ExportHeader(name)
    \o ExportSection(list, "Todo")
    \o ExportSection(list, "Progress")
    \o ExportSection(list, "Done")
    \o ExportMetadata(list, name)

\* tasks_by_status[status] raises KeyError for a status that is no column
ExportRaises(list) ==
    \E i \in 1..Len(list) : ColumnIndex(_status_for_task(list[i])) = -1

\* export_to_markdown(): menu option 25 and the export verb
export_to_markdown ==
    /\ pc = "loop"
    /\ IF ExportRaises(current_checklist)
       THEN /\ pc' = "crashed"
            /\ exported' = ExportHeader(current_checklist_name)
       ELSE /\ pc' = "loop"
            /\ exported' = ExportedFile(current_checklist, current_checklist_name)
    /\ op' = OpNone("export", "menu")
    /\ UNCHANGED <<current_checklist, current_checklist_name, last_action,
                   KANBAN_VIEW_ENABLED, KANBAN_ALIGNMENT_HORIZONTAL, CONFIG,
                   files>>

\* clear_checklist(): menu option 6
clear_checklist(confirm) ==
    /\ pc = "loop"
    /\ IF confirm # "yes" THEN Rejected("clear", "menu")
       ELSE Step("loop", <<>>, Saved(files, current_checklist_name, <<>>),
                 AfterReplace(last_action, current_checklist),
                 OpNone("clear", "menu"))

\* ------------------------------------------------------------ markdown import
\* the priority markers: one code point each (red, yellow, green circle)
RedMarker == "(red circle)"
YellowMarker == "(yellow circle)"
GreenMarker == "(green circle)"

DueToken == <<" ", "d", "u", "e", ":">>

\* the task (as a list of at most one dict) built from a checkbox line whose
\* text starts at position 6; nothing when the text is empty
ImportedTask(line, section, completed) ==
    LET task_text == Strip(From(line, 6))
        marked == task_text # <<>>
                  /\ Head(task_text) \in {RedMarker, YellowMarker, GreenMarker}
        priority == IF task_text # <<>> /\ Head(task_text) = RedMarker THEN "High"
                    ELSE IF task_text # <<>> /\ Head(task_text) = GreenMarker THEN "Low"
                    ELSE "Medium"
        text2 == IF marked THEN Strip(Tail(task_text)) ELSE task_text
        duePos == Find(text2, DueToken)
        text3 == IF duePos > 0 THEN Strip(SubSeq(text2, 1, duePos - 1)) ELSE text2
        afterDue == From(text2, duePos - 1 + Len(DueToken))
        nextDue == Find(afterDue, DueToken)
        due_date == Strip(IF nextDue > 0 THEN SubSeq(afterDue, 1, nextDue - 1)
                          ELSE afterDue)
        new_task == [task |-> text3, completed |-> completed, start_time |-> 0,
                     time_spent |-> 0, priority |-> priority,
                     progress |-> IF section = "Todo" THEN 0
                                  ELSE IF section = "Done" THEN 100 ELSE 50,
                     status |-> section]
    IN IF task_text = <<>> THEN <<>>
       ELSE IF duePos > 0 /\ ValidDate(due_date)
       THEN <<SetField(new_task, "due_date", due_date)>>
       ELSE <<new_task>>

\* the section a "## " heading line selects
SectionAfter(line, section) ==
    LET potential_section == Strip(From(line, 3)) IN
    IF \E i \in 1..Len(KANBAN_COLUMNS) : ColumnText(KANBAN_COLUMNS[i]) = potential_section
    THEN KANBAN_COLUMNS[CHOOSE i \in 1..Len(KANBAN_COLUMNS) :
                            ColumnText(KANBAN_COLUMNS[i]) = potential_section]
    ELSE section

\* checkbox = line[3:5]
CheckboxSlice(line) == SubSeq(line, 4, 5)

\* the loop of import_from_markdown over the file's lines: the tasks appended
RECURSIVE ImportLines(_, _)
ImportLines(lines, section) ==
    IF lines = <<>> THEN <<>>
    ELSE LET line == Strip(Head(lines))
             checkbox == CheckboxSlice(line)
         IN IF StartsWith(line, <<"#", "#", " ">>)
            THEN ImportLines(Tail(lines), SectionAfter(line, section))
            ELSE IF StartsWith(line, <<"-", " ", "[">>)
                    /\ ~(Len(line) < 6)
                    /\ checkbox \in {<<"[", " ", "]">>, <<"[", "x", "]">>}
            THEN ImportedTask(line, section, checkbox = <<"[", "x", "]">>)
                 \o ImportLines(Tail(lines), section)
            ELSE ImportLines(Tail(lines), section)

\* history of an import: the file read and the checklist before
OpImport(lines) ==
    [kind |-> "import", via |-> "menu", n |-> 0, col |-> "-", completed |-> FALSE,
     pcol |-> "-", pcompleted |-> FALSE,
     file |-> lines, before |-> current_checklist]

\* import_from_markdown(): menu option 28 and the import verb
import_from_markdown(exists, lines) ==
    /\ pc = "loop"
    /\ IF ~exists THEN Rejected("import", "menu")
       ELSE LET tasks == ImportLines(lines, "Todo")
                list2 == current_checklist \o tasks
            IN Step("loop", list2,
                    IF Len(tasks) > 0
                    THEN Saved(files, current_checklist_name, list2) ELSE files,
                    last_action, OpImport(lines))

\* Markdown files the user may import besides an exported one.
FixBugFile ==
    <<<<"#", "#", " ", "P", "r", "o", "g", "r", "e", "s", "s">>,
      <<"-", " ", "[", " ", "]", " ">> \o <<RedMarker>> \o <<" ", "F", "i", "x", " ", "b", "u", "g">> \o DueToken \o <<"2", "0", "2", "5", "-", "0", "1", "-", "0", "1">>>>

MixedFile ==
    <<<<"-", " ", "[", "x", "]", " ">> \o <<GreenMarker>> \o <<" ", "b">> \o DueToken \o <<"2", "0", "2", "5", "-", "1", "3", "-", "0", "1">>,
      <<"#", "#", " ", "D", "o", "n", "e">>,
      <<"-", " ", "[", "x", "]", " ">> \o <<"a">>,
      <<"-", " ", "[", " ", "]">>,
      <<"n", "o", "t", "e", "s">>>>

SampleFiles == {FixBugFile, MixedFile}

\* ------------------------------------------------------------ specifications
\* The status-transition operations of the menu and of the verbs.
NextKanban ==
    \/ StartInteractive
    \/ \E t \in Titles : add_task(t, "")
    \/ \E t \in Titles : add_task_with_args(t)
    \/ \E inp \in TaskNumInputs : promote_task(inp)
    \/ \E inp \in TaskNumInputs : regress_task(inp)
    \/ \E inp \in TaskNumInputs : PromoteVerb(inp)
    \/ \E inp \in TaskNumInputs : RegressVerb(inp)
    \/ toggle_kanban_view

SpecKanban == Init /\ [][NextKanban]_vars

\* Promote and regress at the ends of the board, on tasks with and without a
\* stored status.
NextBoundary ==
    \/ StartInteractive
    \/ \E t \in Titles : add_task(t, "")
    \/ mark_task(Number(1))
    \/ \E inp \in TaskNumInputs : promote_task(inp)
    \/ \E inp \in TaskNumInputs : regress_task(inp)
    \/ \E inp \in TaskNumInputs : PromoteVerb(inp)
    \/ \E inp \in TaskNumInputs : RegressVerb(inp)

SpecBoundary == Init /\ [][NextBoundary]_vars

\* Marking a task completed, from the menu and by the verb, in both views.
NextMark ==
    \/ StartInteractive
    \/ \E t \in Titles : add_task(t, "")
    \/ \E t \in Titles : add_task_with_args(t)
    \/ \E inp \in TaskNumInputs : mark_task(inp)
    \/ \E inp \in TaskNumInputs : MarkVerb(inp)
    \/ toggle_kanban_view

SpecMark == Init /\ [][NextMark]_vars

\* The operations named by the status/completed consistency rule: the add
\* verb, promote and regress (menu and verb), the mark and delete verbs.
NextTransitions ==
    \/ StartInteractive
    \/ \E t \in Titles : add_task_with_args(t)
    \/ \E inp \in TaskNumInputs : promote_task(inp)
    \/ \E inp \in TaskNumInputs : regress_task(inp)
    \/ \E inp \in TaskNumInputs : PromoteVerb(inp)
    \/ \E inp \in TaskNumInputs : RegressVerb(inp)
    \/ \E inp \in TaskNumInputs : MarkVerb(inp)
    \/ \E inp \in TaskNumInputs : DeleteVerb(inp)

SpecTransitions == Init /\ [][NextTransitions]_vars

\* The status derivation on task dicts of every shape, and the operations
\* that change completed or progress without touching status.
NextStatus ==
    \/ StartInteractive
    \/ load_external_checklist(FALSE, "work", <<>>)
    \/ \E l \in ExternalChecklists : load_external_checklist(TRUE, "work", l)
    \/ \E inp \in TaskNumInputs : mark_task(inp)
    \/ undo_action
    \/ \E inp \in TaskNumInputs, progress \in {NoDigits, Digits(0), Digits(50)} :
           edit_task(inp, <<>>, "", progress)

SpecStatus == Init /\ [][NextStatus]_vars

\* The markdown bridge: export, clear, import.
NextMarkdown ==
    \/ StartInteractive
    \/ \E t \in Titles : add_task_with_args(t)
    \/ \E inp \in TaskNumInputs : promote_task(inp)
    \/ \E confirm \in {"yes", "no"} : clear_checklist(confirm)
    \/ export_to_markdown
    \/ import_from_markdown(FALSE, <<>>)
    \/ \E f \in SampleFiles : import_from_markdown(TRUE, f)
    \/ (exported # NoFile /\ import_from_markdown(TRUE, exported))

SpecMarkdown == Init /\ [][NextMarkdown]_vars

\* Export of checklists whose tasks hold or lack a stored status.
NextExport ==
    \/ StartInteractive
    \/ \E t \in Titles : add_task(t, "")
    \/ mark_task(Number(1))
    \/ \E inp \in TaskNumInputs : PromoteVerb(inp)
    \/ export_to_markdown

SpecExport == Init /\ [][NextExport]_vars

\* Every operation that changes the in-memory checklist, in sessions over a
\* checklist of at most one task, with the stored file deleted in between.
NextSave ==
    \/ StartInteractive
    \/ (current_checklist = <<>> /\ \E t \in Titles : add_task(t, ""))
    \/ (current_checklist = <<>> /\ \E t \in Titles : add_task_with_args(t))
    \/ undo_action
    \/ edit_task(Number(1), <<>>, "", Digits(50))
    \/ mark_task(Number(1))
    \/ MarkVerb(Number(1))
    \/ \E now \in StartTimes : start_task(Number(1), now)
    \/ \E now \in StopTimes : stop_task(Number(1), now)
    \/ clear_checklist("yes")
    \/ promote_task(Number(1))
    \/ regress_task(Number(1))
    \/ DeleteVerb(Number(1))
    \/ schedule_task(Number(1), <<"1">>)
    \/ \E f \in SampleFiles : import_from_markdown(TRUE, f)
    \/ load_external_checklist(TRUE, "default", ExternalSample)
    \/ delete_checklist("default", "yes")

SpecSave == Init /\ [][NextSave]_vars

\* The store: checklists of at most one task saved, switched, deleted.
NextStore ==
    \/ StartInteractive
    \/ (current_checklist = <<>> /\ \E t \in StoreTitles : add_task(t, ""))
    \/ \E name \in NameInputs : switch_checklist(name)
    \/ \E name \in NameInputs, confirm \in {"yes", "no"} :
           delete_checklist(name, confirm)
    \/ \E confirm \in {"yes", "no"} : delete_all_checklists(confirm)
    \/ quit

SpecStore == Init /\ [][NextStore]_vars

\* ------------------------------------------------------------ claims
\* the task the last operation acted on
Target == current_checklist[op.n]

\* C1: every promote (menu option 21 and the promote verb) of a task in column
\* Todo or Progress sets its status to the next column, and sets completed
\* whenever the new status is Done.
C1_PromoteAdvancesAndCompletes ==
    (op.kind = "promote" /\ op.n > 0 /\ op.col \in {"Todo", "Progress"}) =>
        /\ "status" \in DOMAIN Target
        /\ Target["status"] = (IF op.col = "Todo" THEN "Progress" ELSE "Done")
        /\ (Target["status"] = "Done" => Target["completed"] = TRUE)

\* C2: every regress (menu option 22 and the regress verb) of a task in column
\* Progress or Done sets its status to the previous column; completed becomes
\* false when the column was Done and keeps its value when it was Progress.
C2_RegressMovesBack ==
    (op.kind = "regress" /\ op.n > 0 /\ op.col \in {"Progress", "Done"}) =>
        /\ "status" \in DOMAIN Target
        /\ Target["status"] = (IF op.col = "Done" THEN "Progress" ELSE "Todo")
        /\ Target["completed"] = (IF op.col = "Done" THEN FALSE ELSE op.completed)

\* C2 witness: a regress has moved a completed Done task back, and the
\* checklist holds another task.
C2_Witness ==
    /\ op.kind = "regress" /\ op.n > 0 /\ op.col = "Done" /\ op.completed
    /\ Target["status"] = "Progress"
    /\ Len(current_checklist) >= 2

\* C3: after any sequence of the status-transition operations, every task has
\* status Done exactly when completed is true.
C3_DoneIffCompleted ==
    \A i \in 1..Len(current_checklist) :
        (Get(current_checklist[i], "status", "-") = "Done")
            <=> (current_checklist[i]["completed"] = TRUE)

\* C4: marking a task as completed (menu option 3 and the mark verb) leaves it
\* completed and in the Done column (read in the weakest way: the column
\* _status_for_task gives, whether or not the status key is stored).
C4_MarkCompletesAndMovesToDone ==
    (op.kind = "mark" /\ op.n > 0) =>
        /\ Target["completed"] = TRUE
        /\ _status_for_task(Target) = "Done"

\* the reference derivation of the column
ReferenceStatus(item) ==
    LET completed == IF "completed" \in DOMAIN item THEN item["completed"] ELSE FALSE
        progress == IF "progress" \in DOMAIN item THEN item["progress"] ELSE 0
    IN CASE "status" \in DOMAIN item -> item["status"]
         [] "status" \notin DOMAIN item /\ completed = TRUE -> "Done"
         [] "status" \notin DOMAIN item /\ completed = FALSE /\ progress > 0 -> "Progress"
         [] OTHER -> "Todo"

\* C5: _status_for_task is the reference function (the stored status verbatim;
\* otherwise Done iff completed, else Progress iff progress > 0, else Todo,
\* missing completed read as false and missing progress as 0); so a task with
\* a stored status keeps its column when menu mark, undo or edit change
\* completed or progress.
C5_StatusDerivation ==
    /\ \A i \in 1..Len(current_checklist) :
           _status_for_task(current_checklist[i]) = ReferenceStatus(current_checklist[i])
    /\ (op.kind \in {"mark", "undo", "edit"} /\ op.n > 0 /\ "status" \in DOMAIN Target)
           => _status_for_task(Target) = op.col

\* C5 witness: menu mark has completed a task whose stored status is Todo.
C5_Witness ==
    /\ op.kind = "mark" /\ op.via = "menu" /\ op.n > 0
    /\ "status" \in DOMAIN Target /\ Target["status"] = "Todo"
    /\ Target["completed"] = TRUE /\ ~op.completed

\* C6: promote immediately followed by regress of the same task restores the
\* column: from Todo, column Todo and the original completed; from Progress,
\* column Progress and completed false; a promote of a Done task keeps its
\* column and completed flag.
C6_PromoteRegressRoundTrip ==
    /\ (op.kind = "regress" /\ op.n > 0 /\ op.pcol = "Todo") =>
           /\ _status_for_task(Target) = "Todo"
           /\ Target["completed"] = op.pcompleted
    /\ (op.kind = "regress" /\ op.n > 0 /\ op.pcol = "Progress") =>
           /\ _status_for_task(Target) = "Progress"
           /\ Target["completed"] = FALSE
    /\ (op.kind = "promote" /\ op.n > 0 /\ op.col = "Done") =>
           /\ _status_for_task(Target) = "Done"
           /\ Target["completed"] = op.completed

\* C6 witness: a verb regress right after a menu promote of a Progress task.
C6_Witness ==
    /\ op.kind = "regress" /\ op.via = "verb" /\ op.n > 0
    /\ op.pcol = "Progress" /\ op.col = "Done"
    /\ _status_for_task(Target) = "Progress"

\* C7: promote of a Done task and regress of a Todo task change no task of
\* the checklist: no field, no key, no other task.
C7_BoundaryNoOp ==
    [][ /\ (op'.kind = "promote" /\ op'.n > 0 /\ op'.col = "Done")
            => current_checklist' = current_checklist
        /\ (op'.kind = "regress" /\ op'.n > 0 /\ op'.col = "Todo")
            => current_checklist' = current_checklist ]_vars

\* C7 witness: a promote was applied to a task that is in the Done column
\* without a stored status key, in a checklist of two tasks.
C7_Witness ==
    /\ op.kind = "promote" /\ op.n > 0 /\ op.col = "Done"
    /\ "status" \notin DOMAIN Target
    /\ Len(current_checklist) >= 2

\* a line of the form "- [ ] <text>" or "- [x] <text>"
IsCheckboxLine(line) ==
    /\ Len(line) > 6
    /\ SubSeq(line, 1, 6) \in {<<"-", " ", "[", " ", "]", " ">>, <<"-", " ", "[", "x", "]", " ">>}
    /\ Strip(From(line, 6)) # <<>>

\* the tasks the import is said to add: one per checkbox line, completed iff
\* the box holds x, under the most recent column heading
RECURSIVE ClaimedTasks(_, _)
ClaimedTasks(lines, section) ==
    IF lines = <<>> THEN <<>>
    ELSE LET line == Strip(Head(lines)) IN
         IF StartsWith(line, <<"#", "#", " ">>)
         THEN ClaimedTasks(Tail(lines), SectionAfter(line, section))
         ELSE IF IsCheckboxLine(line)
         THEN ImportedTask(line, section, line[4] = "x")
              \o ClaimedTasks(Tail(lines), section)
         ELSE ClaimedTasks(Tail(lines), section)

\* C8: markdown import turns every checkbox line into one task (completed iff
\* [x], status the latest heading, progress 0/50/100 by section, priority by
\* marker, due_date iff the due token is a valid date); the file "## Progress",
\* "- [ ] (red) Fix bug due:2025-01-01" imported into an empty checklist gives
\* exactly one task: High, Progress, 50, due 2025-01-01, not completed.
C8_ImportParsesCheckboxLines ==
    /\ op.kind = "import" /\ "file" \in DOMAIN op
           => current_checklist = op.before \o ClaimedTasks(op.file, "Todo")
    /\ (op.kind = "import" /\ "file" \in DOMAIN op
            /\ op.file = FixBugFile /\ op.before = <<>>)
           => current_checklist =
                  <<[task |-> <<"F", "i", "x", " ", "b", "u", "g">>, completed |-> FALSE, start_time |-> 0,
                     time_spent |-> 0, priority |-> "High", progress |-> 50,
                     status |-> "Progress", due_date |-> <<"2", "0", "2", "5", "-", "0", "1", "-", "0", "1">>]>>

\* C9: markdown import only appends: the tasks held before are unchanged and
\* in place, and every checkbox line adds one task at the end.
C9_ImportAppends ==
    (op.kind = "import" /\ "file" \in DOMAIN op) =>
        /\ Len(current_checklist) >= Len(op.before)
        /\ SubSeq(current_checklist, 1, Len(op.before)) = op.before
        /\ Len(current_checklist) =
               Len(op.before) + Cardinality({i \in 1..Len(op.file) :
                                                 IsCheckboxLine(Strip(op.file[i]))})

\* the checkbox lines of a file, in order
CheckboxLines(lines) == SelectSeq(lines, LAMBDA l : IsCheckboxLine(Strip(l)))

\* C10: importing an exported file into an empty checklist gives as many
\* tasks as the file has checkbox lines, the i-th with the completed flag of
\* the i-th checkbox line.
C10_ExportImportRoundTrip ==
    (op.kind = "import" /\ "file" \in DOMAIN op
        /\ exported # NoFile /\ op.file = exported /\ op.before = <<>>) =>
        /\ Len(current_checklist) = Len(CheckboxLines(exported))
        /\ \A i \in 1..Len(current_checklist) :
               current_checklist[i]["completed"]
                   = (Strip(CheckboxLines(exported)[i])[4] = "x")

\* ---- the exported document, read back line by line
\* positions of the checkbox lines of a file, in file order
BoxPositions(lines) == {i \in 1..Len(lines) : StartsWith(lines[i], <<"-", " ", "[">>)}

\* the k-th smallest element of a set of numbers
Kth(S, k) == CHOOSE i \in S : Cardinality({j \in S : j < i}) = k - 1

\* the text of the last "## " heading above line i (empty when there is none)
HeadingAbove(lines, i) ==
    LET hs == {j \in 1..(i - 1) : StartsWith(lines[j], <<"#", "#", " ">>)} IN
    IF hs = {} THEN <<>>
    ELSE From(lines[CHOOSE j \in hs : \A h \in hs : h <= j], 3)

\* the task positions of a checklist by column, Todo first, in checklist
\* order within a column
ByColumn(list) ==
    LET n == Len(list)
        col(i) == ColumnIndex(_status_for_task(list[i]))
        Before(i, j) == col(i) < col(j) \/ (col(i) = col(j) /\ i < j)
    IN [k \in 1..n |->
           CHOOSE i \in 1..n : Cardinality({j \in 1..n : Before(j, i)}) = k - 1]

\* C11: the exported file holds one checkbox line per task: the k-th checkbox
\* line is that of the k-th task by column (Todo, Progress, Done; checklist
\* order within a column), stands under the heading of the task's column,
\* starts with "- [x] " iff the task is completed and carries its title; the
\* metadata block counts all tasks and the completed ones.
C11_ExportWritesEveryTaskOnce ==
    (op.kind = "export" /\ pc = "loop") =>
        LET boxes == BoxPositions(exported)
            order == ByColumn(current_checklist)
            done == {i \in 1..Len(current_checklist) :
                        Get(current_checklist[i], "completed", FALSE)}
        IN /\ Cardinality(boxes) = Len(current_checklist)
           /\ \A k \in 1..Len(current_checklist) :
                  LET line == exported[Kth(boxes, k)]
                      task == current_checklist[order[k]]
                  IN /\ HeadingAbove(exported, Kth(boxes, k))
                            = ColumnText(_status_for_task(task))
                     /\ StartsWith(line, <<"-", " ", "[", "x", "]", " ">>)
                            <=> Get(task, "completed", FALSE)
                     /\ StartsWith(line, <<"-", " ", "[", " ", "]", " ">>)
                            <=> ~Get(task, "completed", FALSE)
                     /\ StartsWith(From(line, 6), task["task"] \o <<" ">>)
           /\ \E i \in 1..Len(exported) :
                  exported[i] = <<"t", "o", "t", "a", "l", "_", "t", "a", "s", "k", "s", ":", " ">> \o DecimalText(Len(current_checklist))
           /\ \E i \in 1..Len(exported) :
                  exported[i] = <<"c", "o", "m", "p", "l", "e", "t", "e", "d", "_", "t", "a", "s", "k", "s", ":", " ">> \o DecimalText(Cardinality(done))

\* an export of two tasks whose columns are in the reverse of their checklist
\* order, the first completed with no stored status
C11_Witness ==
    /\ op.kind = "export" /\ pc = "loop"
    /\ Len(current_checklist) = 2
    /\ _status_for_task(current_checklist[1]) = "Done"
    /\ _status_for_task(current_checklist[2]) = "Progress"
    /\ "status" \notin DOMAIN current_checklist[1]
    /\ ~Get(current_checklist[2], "completed", FALSE)

C13_LoadOfMissingFile ==
    /\ (op.kind = "start" /\ pc = "loop") =>
           /\ current_checklist = <<>>
           /\ current_checklist_name = "default"
           /\ files["default"] = JsonDump(<<>>)
           /\ JsonLoad(files["default"]) = <<>>
           /\ \A n \in Names \ {"default"} :
                  files[n] = IF n = "old" THEN Malformed ELSE Absent
    /\ (op.kind = "switch" /\ "store" \in DOMAIN op
            /\ op.store[op.name] = Absent) =>
           /\ pc = "loop"
           /\ current_checklist = <<>>
           /\ current_checklist_name = op.name
           /\ files[op.name] = JsonDump(<<>>)
           /\ JsonLoad(files[op.name]) = <<>>
           /\ \A n \in Names \ {op.name} : files[n] = op.store[n]

\* a switch away from a checklist that holds a task, to a name with no file
C13_Witness ==
    /\ op.kind = "switch" /\ "store" \in DOMAIN op
    /\ op.store[op.name] = Absent
    /\ op.before # <<>>
    /\ op.store[op.from] # Absent

C15_DeletedStaysDeleted ==
    [][\A n \in Names :
           (pc # "start" /\ files[n] = Absent /\ files'[n] # Absent)
               => (op'.kind = "switch" /\ "name" \in DOMAIN op' /\ op'.name = n)]_vars

\* ------------------------------------------------------------ the views
\* The list view over checklists of every mix of priorities.
NextList ==
    \/ StartInteractive
    \/ \E t \in Titles, answer \in {"high", "", "low"} : add_task(t, answer)
    \/ \E inp \in TaskNumInputs : mark_task(inp)
    \/ display_checklist

SpecList == Init /\ [][NextList]_vars

\* how severe a priority is: High over Medium over Low
Severity(priority) ==
    CASE priority = "High" -> 3
      [] priority = "Medium" -> 2
      [] priority = "Low" -> 1

\* C16: the list view shows the tasks by priority severity: in the rows
\* display_checklist prints, no task stands above a task of a more severe
\* priority (every High before every Medium, every Medium before every Low),
\* for checklists whose priorities are High, Medium or Low.
C16_ListViewBySeverity ==
    (op.kind = "display_checklist" /\ pc = "loop"
     /\ \A i \in 1..Len(current_checklist) :
            Get(current_checklist[i], "priority", "Medium")
                \in {"High", "Medium", "Low"})
    => \A k, l \in 1..Len(op.shown) :
           k < l => Severity(op.shown[k].priority) >= Severity(op.shown[l].priority)

\* Both views and both kanban layouts, with a Done limit small enough to cut
\* the Done column.
NextViews ==
    \/ StartInteractive
    \/ \E t \in Titles : add_task(t, "")
    \/ \E inp \in TaskNumInputs : MarkVerb(inp)
    \/ display_checklist
    \/ display_kanban
    \/ toggle_kanban_alignment
    \/ configure([digit |-> TRUE, val |-> 1], "y")

SpecViews == Init /\ [][NextViews]_vars

\* the task numbers a vertical column accounts for: those printed and those
\* counted by (+N more)
Accounted(column) == Len(column.rows) + column.more

\* C17: rendering is read-only: after display_checklist or display_kanban, in
\* the horizontal and in the vertical layout, the checklist in memory (length,
\* order, every field of every task) and the store are what they were when
\* the rendering was called; a Done column cut to its limit still accounts
\* for every Done task, as a printed row or in the count of (+N more).
C17_RenderingIsReadOnly ==
    op.kind \in {"display_checklist", "display_kanban"}
    => /\ current_checklist = op.before
       /\ files = op.store
       /\ (op.kind = "display_kanban" /\ op.shown.layout = "vertical")
          => \A c \in 1..Len(KANBAN_COLUMNS) :
                 Accounted(op.shown.columns[c])
                     = Len(TasksOfColumn(current_checklist, KANBAN_COLUMNS[c]))

\* a vertical board whose Done column was cut, with both tasks still in the
\* checklist
C17_Witness ==
    /\ pc = "loop"
    /\ op.kind = "display_kanban"
    /\ op.shown.layout = "vertical"
    /\ op.shown.columns[3].more > 0
    /\ Len(op.shown.columns[3].rows) = CONFIG.limits.done
    /\ Len(current_checklist) = MaxTasks

\* ------------------------------------------------------------ task numbers
\* What the user types where a task number is asked, a negative number
\* included.
IndexInputs == TaskNumInputs \cup {Number(-1)}

\* the inputs that name no task of the current checklist: not a number, zero,
\* negative, or past the end
BadInputs ==
    {inp \in IndexInputs :
        ~inp.num \/ inp.val < 1 \/ inp.val > Len(current_checklist)}

\* Every operation that takes a task number, given inputs that name no task,
\* on checklists of every length and in both views.
NextIndex ==
    \/ StartInteractive
    \/ \E t \in Titles : add_task(t, "")
    \/ \E t \in Titles : add_task_with_args(t)
    \/ toggle_kanban_view
    \/ \E inp \in BadInputs : PromoteVerb(inp)
    \/ \E inp \in BadInputs : RegressVerb(inp)
    \/ \E inp \in BadInputs : DeleteVerb(inp)
    \/ \E inp \in BadInputs : MarkVerb(inp)
    \/ \E inp \in BadInputs : edit_task(inp, <<>>, "", NoDigits)
    \/ \E inp \in BadInputs : mark_task(inp)
    \/ \E inp \in BadInputs, now \in StartTimes : start_task(inp, now)
    \/ \E inp \in BadInputs, now \in StopTimes : stop_task(inp, now)
    \/ \E inp \in BadInputs : promote_task(inp)
    \/ \E inp \in BadInputs : regress_task(inp)
    \/ \E inp \in BadInputs : schedule_task(inp, <<"1">>)

SpecIndex == Init /\ [][NextIndex]_vars

\* a step of an operation that takes a task number, given the input inp
IndexOperation(inp) ==
    \/ PromoteVerb(inp)
    \/ RegressVerb(inp)
    \/ DeleteVerb(inp)
    \/ MarkVerb(inp)
    \/ edit_task(inp, <<>>, "", NoDigits)
    \/ mark_task(inp)
    \/ \E now \in StartTimes : start_task(inp, now)
    \/ \E now \in StopTimes : stop_task(inp, now)
    \/ promote_task(inp)
    \/ regress_task(inp)
    \/ schedule_task(inp, <<"1">>)

\* C18: an operation that takes a one-based task number and is given an input
\* that is not a number, is zero, is negative or is greater than the length
\* of the checklist answers with an error message (the process is back in the
\* input loop) and leaves the checklist in memory and its stored file
\* unchanged.
C18_BadTaskNumberRejected ==
    [][\A inp \in BadInputs :
           IndexOperation(inp)
           => /\ pc' = "loop"
              /\ current_checklist' = current_checklist
              /\ files' = files]_vars

\* ------------------------------------------------------------ the input loop
\* Sessions that reach the error paths: the menu operations given a task
\* number that names no task, on checklists of every length; undo after the
\* delete verb; a switch to every stored name; exit.
NextLoop ==
    \/ StartInteractive
    \/ \E t \in Titles : add_task(t, "")
    \/ DeleteVerb(Number(1))
    \/ undo_action
    \/ \E inp \in BadInputs : mark_task(inp)
    \/ \E inp \in BadInputs : edit_task(inp, <<>>, "", NoDigits)
    \/ \E inp \in BadInputs, now \in StartTimes : start_task(inp, now)
    \/ \E inp \in BadInputs, now \in StopTimes : stop_task(inp, now)
    \/ \E inp \in BadInputs : promote_task(inp)
    \/ \E inp \in BadInputs : regress_task(inp)
    \/ \E name \in NameInputs : switch_checklist(name)
    \/ quit

SpecLoop == Init /\ [][NextLoop]_vars

\* C19: no error path ends the process: every operation taken from the input
\* loop, exit excepted, returns control to the input loop, whatever the user
\* typed and whatever state the checklist, last_action and the store are in.
C19_ErrorsReturnToTheLoop ==
    [][(pc = "loop" /\ op'.kind # "quit") => pc' = "loop"]_vars

\* ------------------------------------------------------------ adding
\* What the user types as the text of a new task: nothing, or a title.
AddTexts == {<<>>} \cup Titles

\* Adding from the menu and by the verb, with and without text, in both views.
NextAdd ==
    \/ StartInteractive
    \/ \E t \in AddTexts : add_task(t, "")
    \/ \E t \in AddTexts : add_task_with_args(t)
    \/ \E inp \in TaskNumInputs : DeleteVerb(inp)
    \/ undo_action
    \/ toggle_kanban_view

SpecAdd == Init /\ [][NextAdd]_vars

\* C20: adding a task requires text: an add whose text is empty, from menu
\* option 2 or by the add verb, reports an error (the process is back in the
\* input loop), adds no task, and leaves the checklist, last_action and the
\* stored file unchanged.
C20_AddRequiresText ==
    [][(add_task(<<>>, "") \/ add_task_with_args(<<>>))
       => /\ pc' = "loop"
          /\ current_checklist' = current_checklist
          /\ last_action' = last_action
          /\ files' = files]_vars

\* ------------------------------------------------------------ batch mode
\* int(text) of a command-line word: a number for a word of decimal digits,
\* ValueError otherwise
IntOf(text) ==
    IF text # <<>> /\ AllDigits(text) THEN Number(DecimalValue(text))
    ELSE NonNumeric

\* " ".join(args)
RECURSIVE Join(_)
Join(args) ==
    IF args = <<>> THEN <<>>
    ELSE IF Len(args) = 1 THEN args[1]
    ELSE args[1] \o <<" ">> \o Join(Tail(args))

\* sys.argv[1]: the verbs the model invokes and a word that is no verb
BatchCommands ==
    {"add", "promote", "regress", "delete", "mark", "show", "frobnicate"}
\* sys.argv[2:]: no word, a number, a word
BatchArgs == {<<>>, << <<"1">> >>, << <<"a">> >>}

\* A new run of the program after the last one ended: the module-level
\* assignments give every global its initial value; the checklist files, the
\* exported file and the saved configuration stay on disk.
NewProcess ==
    /\ pc \in {"exited", "crashed"}
    /\ pc' = "start"
    /\ current_checklist' = <<>>
    /\ current_checklist_name' = "default"
    /\ last_action' = None
    /\ KANBAN_VIEW_ENABLED' = FALSE
    /\ KANBAN_ALIGNMENT_HORIZONTAL' = TRUE
    /\ op' = NoOp
    /\ UNCHANGED <<CONFIG, files, exported>>

\* history record of a run with command-line arguments: the words given and
\* the store before the run
OpBatch(command, args) ==
    [kind |-> "batch", via |-> "args", n |-> 0, col |-> "-",
     completed |-> FALSE, pcol |-> "-", pcompleted |-> FALSE,
     command |-> command, args |-> args, store |-> files]

\* the end of a verb in a run with arguments: saved, repainted, then main
\* returns
BatchDone(list2, la2, op2) ==
    Step(IF RepaintRaises(list2, KANBAN_VIEW_ENABLED) THEN "crashed" ELSE "exited",
         list2, Saved(files, current_checklist_name, list2), la2, op2)

\* main() with command-line arguments: process_args() hands sys.argv[1] and
\* sys.argv[2:] to process_simple_commands and main returns when that returns
\* True.  No checklist is loaded before the verb runs: it works on the
\* module-level current_checklist.  When process_simple_commands returns
\* False (no branch took the command), main goes on into interactive mode.
main_with_args(command, args) ==
    /\ pc = "start"
    /\ LET inp == IF args # <<>> THEN IntOf(args[1]) ELSE NonNumeric
           i == inp.val
           o == OpBatch(command, args)
           done == Step("exited", current_checklist, files, last_action, o)
       IN CASE command = "show" ->
                 Step(IF ~KANBAN_VIEW_ENABLED /\ DisplayRaises(current_checklist)
                      THEN "crashed" ELSE "exited",
                      current_checklist, files, last_action, o)
            [] command = "add" /\ args # <<>> ->
                 LET text == Join(args)
                     task == IF Len(text) > CONFIG.limits.taskname
                             THEN SubSeq(text, 1, CONFIG.limits.taskname)
                             ELSE text
                     new_task == [task |-> task, completed |-> FALSE,
                                  start_time |-> 0, time_spent |-> 0,
                                  priority |-> "Medium", progress |-> 0,
                                  status |-> "Todo"]
                     list2 == Append(current_checklist, new_task)
                 IN IF text = <<>> THEN done
                    ELSE BatchDone(list2, Attached("add", Len(list2)), o)
            [] command = "promote" /\ args # <<>> ->
                 IF VerbIndex(inp) # "ok" THEN done
                 ELSE IF ColumnIndex(_status_for_task(current_checklist[i])) = -1
                 THEN done
                 ELSE BatchDone(SetAt(current_checklist, i,
                                      PromotedVerb(current_checklist[i])),
                                last_action, o)
            [] command = "regress" /\ args # <<>> ->
                 IF VerbIndex(inp) # "ok" THEN done
                 ELSE IF ColumnIndex(_status_for_task(current_checklist[i])) = -1
                 THEN done
                 ELSE BatchDone(SetAt(current_checklist, i,
                                      Regressed(current_checklist[i])),
                                last_action, o)
            [] command = "delete" /\ args # <<>> ->
                 IF VerbIndex(inp) # "ok" THEN done
                 ELSE BatchDone(RemoveAt(current_checklist, i),
                                AfterPop(last_action, current_checklist, i), o)
            [] command = "mark" /\ args # <<>> ->
                 IF VerbIndex(inp) # "ok" THEN done
                 ELSE BatchDone(SetAt(current_checklist, i,
                                      MarkedVerb(current_checklist[i])),
                                last_action, o)
            [] OTHER ->
                 /\ load_checklist(files, current_checklist_name)
                 /\ pc' = IF \/ LoadRaises(files, current_checklist_name)
                             \/ (~KANBAN_VIEW_ENABLED
                                 /\ DisplayRaises(current_checklist'))
                          THEN "crashed" ELSE "loop"
                 /\ op' = o
                 /\ UNCHANGED <<last_action, KANBAN_VIEW_ENABLED, exported,
                                KANBAN_ALIGNMENT_HORIZONTAL, CONFIG>>

\* Runs of the program with and without arguments, one after the other, over
\* a store that interactive runs filled.
NextBatch ==
    \/ StartInteractive
    \/ \E command \in BatchCommands, args \in BatchArgs :
           main_with_args(command, args)
    \/ \E t \in Titles : add_task(t, "")
    \/ quit
    \/ NewProcess

SpecBatch == Init /\ [][NextBatch]_vars

\* C21: a run with at least one command-line argument performs at most one
\* operation and ends without entering the input loop, whatever the first
\* argument (a verb, a verb without the argument it needs, a word that is no
\* verb); only a run without arguments enters the input loop.
C21_BatchNeverEntersTheLoop ==
    [][(pc = "start" /\ pc' = "loop") => op'.kind = "start"]_vars

\* the tasks a stored document holds (none for a file that does not exist)
StoredTasks(doc) == IF doc = Absent \/ doc = Malformed THEN <<>> ELSE JsonLoad(doc)

\* C26: a run `add <text>` preserves what is stored: the default checklist's
\* file holds afterwards the tasks it held before, in order, followed by the
\* new task; runs of delete and mark with a task number act on the stored
\* tasks: delete <n> removes the stored task n, mark <n> completes it.
C26_BatchActsOnTheStoredChecklist ==
    (op.kind = "batch" /\ pc = "exited" /\ op.args # <<>>
     /\ op.store["default"] # Malformed)
    => LET old == StoredTasks(op.store["default"])
           now == StoredTasks(files["default"])
           n == IntOf(op.args[1])
           valid == n.num /\ 1 <= n.val /\ n.val <= Len(old)
       IN /\ op.command = "add"
             => /\ Len(now) = Len(old) + 1
                /\ SubSeq(now, 1, Len(old)) = old
                /\ now[Len(now)]["task"] = Join(op.args)
          /\ (op.command = "delete" /\ valid)
             => now = RemoveAt(old, n.val)
          /\ (op.command = "mark" /\ valid)
             => /\ Len(now) = Len(old)
                /\ now[n.val]["completed"]

\* ------------------------------------------------------------ column limits
\* counts[col] after the counting loop of enforce_column_limits over tasks
RECURSIVE ColumnCount(_, _)
ColumnCount(tasks, col) ==
    IF tasks = <<>> THEN 0
    ELSE ColumnCount(SubSeq(tasks, 1, Len(tasks) - 1), col)
         + (IF _status_for_task(tasks[Len(tasks)]) = col THEN 1 ELSE 0)

\* a test that also warns for a column that is exactly full
Exceeds_or_reaches(count, limit) == count >= limit

\* counts[col] > CONFIG['limits'][key]
Exceeds(count, limit) == count > limit

\* the text of one warning
LimitWarning(col, count, limit) ==
    ColumnText(col) \o <<" column has ">> \o DecimalText(count)
    \o <<" tasks, exceeding limit of ">> \o DecimalText(limit)

\* the list enforce_column_limits returns
ColumnWarnings(tasks, limits) ==
    LET Warn(col) ==
            IF Exceeds(ColumnCount(tasks, col), limits[LimitKey(col)])
            THEN <<LimitWarning(col, ColumnCount(tasks, col),
                                limits[LimitKey(col)])>>
            ELSE <<>>
    IN Warn("Todo") \o Warn("Progress") \o Warn("Done")

\* enforce_column_limits(current_checklist) under the current configuration
enforce_column_limits ==
    /\ pc = "loop"
    /\ Step("loop", current_checklist, files, last_action,
            [kind |-> "limits", via |-> "call", n |-> 0, col |-> "-",
             completed |-> FALSE, pcol |-> "-", pcompleted |-> FALSE,
             warnings |-> ColumnWarnings(current_checklist, CONFIG.limits),
             before |-> current_checklist, config |-> CONFIG])

\* Task dicts of every column, with and without a stored status.
LimitTasks ==
    {[task |-> <<"a">>, completed |-> FALSE, progress |-> 0],
     [task |-> <<"a">>, completed |-> FALSE, progress |-> 50],
     [task |-> <<"a">>, completed |-> TRUE, progress |-> 0],
     [task |-> <<"a">>, completed |-> FALSE, progress |-> 0,
      status |-> "Progress"]}

\* task lists of at most MaxTasks tasks
LimitLists ==
    UNION {[1..n -> LimitTasks] : n \in 0..MaxTasks}

\* The function applied to every task list and every configuration of limits
\* from 0 to MaxTasks.
InitLimits ==
    /\ pc = "loop"
    /\ current_checklist \in LimitLists
    /\ current_checklist_name = "default"
    /\ last_action = None
    /\ KANBAN_VIEW_ENABLED = FALSE
    /\ KANBAN_ALIGNMENT_HORIZONTAL = TRUE
    /\ CONFIG \in {[limits |-> [todo |-> a, progress |-> b, done |-> c,
                                taskname |-> TasknameLimit],
                    repaint |-> Repaint] : a, b, c \in 0..MaxTasks}
    /\ files = [n \in Names |-> Absent]
    /\ exported = NoFile
    /\ op = NoOp

NextLimits == enforce_column_limits

SpecLimits == InitLimits /\ [][NextLimits]_vars

\* the number of tasks of a column, counted as a set of positions
InColumn(list, col) ==
    Cardinality({i \in 1..Len(list) : _status_for_task(list[i]) = col})

\* C22: enforce_column_limits returns exactly one warning for each of Todo,
\* Progress, Done whose number of tasks is strictly greater than its limit,
\* naming the column, the count and the limit, and none for a column whose
\* count is at most its limit; the tasks and the configuration are unchanged.
C22_OneWarningPerExceededColumn ==
    op.kind = "limits"
    => /\ \A c \in 1..Len(KANBAN_COLUMNS) :
             LET col == KANBAN_COLUMNS[c]
                 count == InColumn(op.before, col)
                 limit == op.config.limits[LimitKey(col)]
                 mine == {k \in 1..Len(op.warnings) :
                             StartsWith(op.warnings[k], ColumnText(col))}
             IN IF count > limit
                THEN /\ Cardinality(mine) = 1
                     /\ \A k \in mine :
                            op.warnings[k] =
                                ColumnText(col) \o <<" column has ">>
                                \o DecimalText(count)
                                \o <<" tasks, exceeding limit of ">>
                                \o DecimalText(limit)
                ELSE mine = {}
       /\ current_checklist = op.before
       /\ CONFIG = op.config

\* one column over its limit (one warning) and a non-empty column exactly at
\* its limit (no warning)
C22_Witness ==
    /\ op.kind = "limits"
    /\ Len(op.warnings) = 1
    /\ \E c \in 1..Len(KANBAN_COLUMNS) :
           InColumn(current_checklist, KANBAN_COLUMNS[c])
               = CONFIG.limits[LimitKey(KANBAN_COLUMNS[c])]
           /\ InColumn(current_checklist, KANBAN_COLUMNS[c]) > 0

\* ------------------------------------------------------------ task fields
\* The task operations on a checklist of at most one task, with the answers
\* the edit prompts accept: a priority word outside the three levels, a
\* progress of more than 100.
NextFields ==
    \/ StartInteractive
    \/ (current_checklist = <<>>
        /\ \E t \in Titles, answer \in {"", "high"} : add_task(t, answer))
    \/ (current_checklist = <<>> /\ \E t \in Titles : add_task_with_args(t))
    \/ \E answer \in {"", "low", "urgent"},
          progress \in {NoDigits, Digits(50), Digits(150)} :
           edit_task(Number(1), <<>>, answer, progress)
    \/ mark_task(Number(1))
    \/ promote_task(Number(1))
    \/ regress_task(Number(1))
    \/ undo_action
    \/ DeleteVerb(Number(1))
    \/ \E f \in SampleFiles : import_from_markdown(TRUE, f)

SpecFields == Init /\ [][NextFields]_vars

\* C23: in every state reached from the empty checklist by add, edit, mark,
\* promote, regress, undo, delete and import, the priority of every task is
\* High, Medium or Low.
C23_PriorityIsALevel ==
    \A i \in 1..Len(current_checklist) :
        /\ "priority" \in DOMAIN current_checklist[i]
        /\ current_checklist[i]["priority"] \in {"High", "Medium", "Low"}

\* C24: in every state reached from the empty checklist by add, edit, mark,
\* promote, regress, undo, delete and import, the progress of every task is
\* an integer from 0 to 100.
C24_ProgressIsAPercentage ==
    \A i \in 1..Len(current_checklist) :
        /\ "progress" \in DOMAIN current_checklist[i]
        /\ current_checklist[i]["progress"] \in 0..100

\* C25: every successful add, from menu option 2 and by the add verb, appends
\* exactly one task at the end of the checklist, with completed false,
\* progress 0, time_spent 0, start_time 0 and column Todo, the verb giving
\* priority Medium; the tasks present before are unchanged and in the same
\* order.
C25_AddAppendsOneTodoTask ==
    [][\A t \in AddTexts :
          LET menu == add_task(t, "")
              verb == t # <<>> /\ add_task_with_args(t)
              n == Len(current_checklist)
          IN (menu \/ verb)
             => /\ Len(current_checklist') = n + 1
                /\ SubSeq(current_checklist', 1, n) = current_checklist
                /\ LET new == current_checklist'[n + 1] IN
                   /\ new["task"] = t
                   /\ new["completed"] = FALSE
                   /\ new["progress"] = 0
                   /\ new["time_spent"] = 0
                   /\ new["start_time"] = 0
                   /\ _status_for_task(new) = "Todo"
                   /\ verb => new["priority"] = "Medium"]_vars

\* a task added from the menu behind a task the verb added
C25_Witness ==
    /\ pc = "loop"
    /\ op.kind = "add" /\ op.via = "menu"
    /\ Len(current_checklist) = 2
    /\ "status" \in DOMAIN current_checklist[1]
    /\ "status" \notin DOMAIN current_checklist[2]
    /\ last_action = Attached("add", 2)

\* ------------------------------------------------------------ numbering
\* every task is as add_task made it: no operation has changed it yet
Pristine ==
    \A i \in 1..Len(current_checklist) :
        /\ DOMAIN current_checklist[i] =
               {"task", "completed", "start_time", "time_spent", "priority",
                "progress"}
        /\ ~current_checklist[i]["completed"]
        /\ current_checklist[i]["start_time"] = 0
        /\ current_checklist[i]["time_spent"] = 0
        /\ current_checklist[i]["progress"] = 0

\* Checklists of High and Low tasks in every order, in both views, and the
\* operations that take a task number, each applied to tasks no earlier
\* operation has changed (stop_task: to a task start_task started).
NextNumbers ==
    \/ StartInteractive
    \/ \E t \in Titles, answer \in {"high", "low"} : add_task(t, answer)
    \/ toggle_kanban_view
    \/ (Pristine /\ \E inp \in TaskNumInputs :
                        edit_task(inp, <<>>, "", Digits(50)))
    \/ (Pristine /\ \E inp \in TaskNumInputs : mark_task(inp))
    \/ (Pristine /\ \E inp \in TaskNumInputs, now \in StartTimes :
                        start_task(inp, now))
    \/ \E inp \in TaskNumInputs, now \in StopTimes : stop_task(inp, now)
    \/ (Pristine /\ \E inp \in TaskNumInputs : promote_task(inp))
    \/ (Pristine /\ \E inp \in TaskNumInputs : regress_task(inp))
    \/ (Pristine /\ \E inp \in TaskNumInputs : PromoteVerb(inp))
    \/ (Pristine /\ \E inp \in TaskNumInputs : RegressVerb(inp))
    \/ (Pristine /\ \E inp \in TaskNumInputs : DeleteVerb(inp))
    \/ (Pristine /\ \E inp \in TaskNumInputs : MarkVerb(inp))

SpecNumbers == Init /\ [][NextNumbers]_vars

\* a step of an operation that takes a task number and changes the task
NumberedOperation(inp) ==
    \/ edit_task(inp, <<>>, "", Digits(50))
    \/ mark_task(inp)
    \/ \E now \in StartTimes : start_task(inp, now)
    \/ \E now \in StopTimes : stop_task(inp, now)
    \/ promote_task(inp)
    \/ regress_task(inp)
    \/ PromoteVerb(inp)
    \/ RegressVerb(inp)
    \/ DeleteVerb(inp)
    \/ MarkVerb(inp)

\* the position in current_checklist of the task the active view shows under
\* number n: the board numbers tasks by position, the list view by sorted row
DisplayedAt(n) ==
    IF KANBAN_VIEW_ENABLED THEN n ELSE SortedIndices(current_checklist)[n]

\* C27: task numbers identify the displayed task: the task an operation
\* modifies or removes for the input n is the task the active view (the
\* sorted list when kanban is off, the board when kanban is on) shows under
\* the number n; every other task stays as it was.
C27_NumberNamesTheDisplayedTask ==
    [][\A inp \in TaskNumInputs :
           (NumberedOperation(inp) /\ current_checklist' # current_checklist)
           => LET d == DisplayedAt(inp.val) IN
              IF Len(current_checklist') < Len(current_checklist)
              THEN current_checklist' = RemoveAt(current_checklist, d)
              ELSE \A j \in 1..Len(current_checklist) :
                       j # d => current_checklist'[j] = current_checklist[j]]_vars

\* ------------------------------------------------------------ undo
\* Adds, marks and undos on checklists of up to MaxTasks + 1 tasks of two
\* priorities, so that the task added last can equal a task that stands
\* before another one.
NextUndo ==
    \/ StartInteractive
    \/ (Len(current_checklist) < MaxTasks + 1
        /\ \E t \in Titles, answer \in {"", "high"} : AddTask(t, answer))
    \/ \E inp \in TaskNumInputs : mark_task(inp)
    \/ undo_action

SpecUndo == Init /\ [][NextUndo]_vars

\* C28: an add immediately followed by undo_action restores the checklist to
\* the sequence of tasks it held before the add (the add appended one task at
\* the end), also when an equal task was already in the checklist; a second
\* undo in a row changes nothing.
C28_UndoRestoresTheChecklist ==
    [][/\ (undo_action /\ op.kind = "add")
          => current_checklist' =
                 SubSeq(current_checklist, 1, Len(current_checklist) - 1)
       /\ (undo_action /\ op.kind = "undo")
          => /\ current_checklist' = current_checklist
             /\ files' = files]_vars

\* Undo after the recorded task left the checklist: by the delete verb, by
\* clear_checklist, by a switch to another checklist, by a load of an
\* external file.
NextDetached ==
    \/ StartInteractive
    \/ \E t \in Titles : add_task(t, "")
    \/ \E inp \in TaskNumInputs : mark_task(inp)
    \/ \E inp \in TaskNumInputs : DeleteVerb(inp)
    \/ clear_checklist("yes")
    \/ \E name \in {"default", "work"} : switch_checklist(name)
    \/ load_external_checklist(TRUE, "work", ExternalSample)
    \/ undo_action

SpecDetached == Init /\ [][NextDetached]_vars

\* C29: undo_action affects only the task recorded in last_action: when that
\* task is no longer an element of the current checklist (the delete verb or
\* clear_checklist removed it, or switch_checklist or load_external_checklist
\* loaded another checklist), undo leaves every task of the current checklist
\* and the stored file unchanged.
C29_UndoOfADepartedTask ==
    [][(undo_action /\ last_action.action # "none" /\ last_action.at = 0)
       => /\ current_checklist' = current_checklist
          /\ files' = files]_vars

\* ------------------------------------------------------------ timers
\* Timers started on checklists of High and Low tasks, completed or not.
NextTimer ==
    \/ StartInteractive
    \/ \E t \in Titles, answer \in {"high", "low"} : add_task(t, answer)
    \/ \E inp \in TaskNumInputs : mark_task(inp)
    \/ \E inp \in TaskNumInputs, now \in StartTimes : start_task(inp, now)

SpecTimer == Init /\ [][NextTimer]_vars

\* C30: start_task never starts a timer on a completed task: a task whose
\* start_time the operation sets was not completed before; and a task that
\* is not completed and is selected by a valid number (the task the list
\* shows under that number) gets its timer started.
C30_TimerOnlyOnOpenTasks ==
    [][\A inp \in TaskNumInputs, now \in StartTimes :
           start_task(inp, now)
           => /\ \A j \in 1..Len(current_checklist) :
                     current_checklist'[j]["start_time"]
                         # current_checklist[j]["start_time"]
                     => ~current_checklist[j]["completed"]
              /\ (inp.num /\ 1 <= inp.val /\ inp.val <= Len(current_checklist))
                 => LET d == SortedIndices(current_checklist)[inp.val] IN
                    ~current_checklist[d]["completed"]
                    => current_checklist'[d]["start_time"] = now]_vars
====
